---------------------------- MODULE Spec2Model ----------------------------
(***************************************************************************)
(* The agentic executor of talos (src/talos/tui.py, _agentic_step) with    *)
(* the predicates and collaborators it calls: is_dangerous, the tool       *)
(* registry of src/talos/tools.py, the shell collaborator of               *)
(* src/talos/shell.py and the streaming feed-back of src/talos/agent.py.   *)
(*                                                                         *)
(* Further specifications in this module: build_interaction and          *)
(* parse_response applied to bounded inputs (BuildSpec, ParseSpec), the    *)
(* agent's requests and history (AgentSpec), and the input loop of run()   *)
(* around the agentic cycles (SessionSpec).                                *)
(*                                                                         *)
(* Strings are sequences of Unicode code points, so that strip(),          *)
(* lower(), startswith(), slicing, the substring test and the class \w of  *)
(* the regular expressions are computed on the characters as Python        *)
(* computes them.                                                          *)
(***************************************************************************)
EXTENDS Integers, Sequences, FiniteSets, TLC

(***************************************************************************)
(* State of one run of _agentic_step.                                      *)
(***************************************************************************)
VARIABLES
    confirm_mode,       \* config.confirm_commands
    registry_on,        \* the registry argument is not None (tool use enabled)
    parsed,             \* the ParsedResponse being processed
    iteration,          \* iterations of `for _iteration in range(MAX_STEPS)` begun
    pc,                 \* the await or loop head _agentic_step is at: "top" | "tools" |
                        \* "tool_prompt" | "tool_run" | "tool_feed" | "code" |
                        \* "code_prompt" | "code_run" | "code_feed" | "done" | "raised"
    idx,                \* position of the inner for loop (0 outside of it)
    auto_run,           \* the auto-run flag
    set_by,             \* the answer that set the auto-run flag, <<>> while unset
    step,               \* the step counter shown with each command
    executed_commands,  \* the list of {command, success, exit_code}
    interaction,        \* the value returned: None or the interaction record
    outcome,            \* how the loop ended: "running" | "final" | "error" | "max_steps"
                        \* | "raised"
    summary,            \* final_text, the summary of terminal condition (a)
    last,               \* the latest block or tool call dealt with: prompt, answer, run
    pending,            \* the block or tool call being dealt with, NoStep between two
    fed,                \* the latest feed-back request sent
    requests,           \* feed-back requests sent in this cycle
    fb_failed,          \* a feed-back request of this cycle hit a connection failure
    exec_limit,         \* commands the backend still asks for, at most
    \* the session around the cycles: run() of src/talos/tui.py
    phase,              \* position of run(): "input" | "request" | "cycle" | "rating" |
                        \* "nested" | "end"; "step" for _agentic_step called on its own
    granted,            \* auto-run was set by an answer of all or a in an earlier cycle
    chat,               \* the requests sent for the current user message; for the
                        \* agent on its own, the request awaiting its transport
    sink,               \* interaction records submitted for the current cycle
    bg,                 \* a fire-and-forget request is outstanding
    \* the agent object and the pure functions, on their own
    history,            \* Agent.history, the list of turns
    io                  \* the latest call of an agent method or a pure function

(***************************************************************************)
(* String helpers (Python str methods used by the code).                   *)
(***************************************************************************)
\* A character is its Unicode code point, a number in 0..1114111, and a text
\* is a sequence of characters. Text(s) is the text of the TLA+ string s, which
\* holds printable ASCII characters and the escapes \t \n \f \r; a TLA+ string
\* cannot hold the backtick, which is the character 96.
Printable ==
    " !\"#$%&'()*+,-./0123456789:;<=>?@ABCDEFGHIJKLMNOPQRSTUVWXYZ[\\]^_"
    \o "abcdefghijklmnopqrstuvwxyz{|}~"

\* ord(c) of a string of one character
Ord(c) ==
    CASE c = "\t" -> 9
      [] c = "\n" -> 10
      [] c = "\f" -> 12
      [] c = "\r" -> 13
      [] OTHER -> LET i == CHOOSE k \in 1..Len(Printable) : SubSeq(Printable, k, k) = c
                  IN  IF i <= 64 THEN 31 + i ELSE 32 + i

Text(s) == [i \in 1..Len(s) |-> Ord(SubSeq(s, i, i))]

Newline == Ord("\n")

\* The tables of Unicode 14.0.0 (unicodedata.unidata_version of the Python that
\* runs the code) are written as strings of numbers of six decimal digits.
\* Number(t, p, n) is the number whose n digits start at position p of the
\* string t, and Rows(t, width) are the numbers of t in rows of width numbers.
Digit(t, p) == CHOOSE d \in 0..9 : SubSeq("0123456789", d + 1, d + 1) = SubSeq(t, p, p)

RECURSIVE Number(_, _, _)
Number(t, p, n) ==
    IF n = 0 THEN 0 ELSE 10 * Number(t, p, n - 1) + Digit(t, p + n - 1)

Rows(t, width) ==
    {[j \in 1..width |-> Number(t, 6 * (width * (i - 1) + j) - 5, 6)] :
        i \in 1..(Len(t) \div (6 * width))}

\* c lies in one of the ranges <<first, last>>
InRanges(c, ranges) == \E r \in ranges : r[1] <= c /\ c <= r[2]

\* the characters str.strip() removes: those for which str.isspace() holds
Whitespace ==
    {9, 10, 11, 12, 13, 28, 29, 30, 31, 32, 133, 160, 5760, 8192, 8193, 8194, 8195,
     8196, 8197, 8198, 8199, 8200, 8201, 8202, 8232, 8233, 8239, 8287, 12288}

\* str.lower() on one character other than U+0130 and the capital sigma: of
\* the characters from first to last, every step-th one has a lower case, and
\* the lower cases follow that of first at the same distances; the rows are
\* <<first, last, step, lower case of first>>
LowerRuns ==
    Rows(
         "000065000090000001000097000192000214000001000224000216000222000001000248000256000302000002000257000306000310000002000307000313000327000002000314000330000374000002000331000376000376000001000255000377000381000002000378000385000385000001000595000386000388000002000387000390000390000001000596000391000391000001000392000393000394000001000598000395000395000001000396000398000398000001000477000399000399000001000601000400000400000001000603000401000401000001000402000403000403000001000608000404000404000001000611000406000406000001000617000407000407000001000616000408000408000001000409000412000412000001000623000413000413000001000626000415000415000001000629000416000420000002000417000422000422000001000640000423000423000001000424000425000425000001000643000428000428000001000429000430000430000001000648000431000431000001000432000433000434000001000650000435000437000002000436000439000439000001000658000440000440000001000441000444000444000001000445000452000452000001000454000453000453000001000454000455000455000001000457000456000456000001000457000458000458000001000460000459000475000002000460000478000494000002000479000497000497000001000499000498000500000002000499000502000502000001000405000503000503000001000447000504000542000002000505000544000544000001000414000546000562000002000547000570000570000001011365000571000571000001000572000573000573000001000410000574000574000001011366000577000577000001000578000579000579000001000384000580000580000001000649000581000581000001000652000582000590000002000583000880000882000002000881000886000886000001000887000895000895000001001011000902000902000001000940000904000906000001000941000908000908000001000972000910000911000001000973000913000929000001000945000931000939000001000963000975000975000001000983000984001006000002000985001012001012000001000952001015001015000001001016001017001017000001001010001018001018000001001019001021001023000001000891001024001039000001001104001040001071000001001072001120001152000002001121001162001214000002001163001216001216000001001231001217001229000002001218001232001326000002001233001329001366000001001377004256004293000001011520004295004295000001011559004301004301000001011565005024005103000001043888005104005109000001005112007312007354000001004304007357007359000001004349007680007828000002007681007838007838000001000223007840007934000002007841007944007951000001007936007960007965000001007952007976007983000001007968007992007999000001007984008008008013000001008000008025008031000002008017008040008047000001008032008072008079000001008064008088008095000001008080008104008111000001008096008120008121000001008112008122008123000001008048008124008124000001008115008136008139000001008050008140008140000001008131008152008153000001008144008154008155000001008054008168008169000001008160008170008171000001008058008172008172000001008165008184008185000001008056008186008187000001008060008188008188000001008179008486008486000001000969008490008490000001000107008491008491000001000229008498008498000001008526008544008559000001008560008579008579000001008580009398009423000001009424011264011311000001011312011360011360000001011361011362011362000001000619011363011363000001007549011364011364000001000637011367011371000002011368011373011373000001000593011374011374000001000625011375011375000001000592011376011376000001000594011378011378000001011379011381011381000001011382011390011391000001000575011392011490000002011393011499011501000002011500011506011506000001011507042560042604000002042561042624042650000002042625042786042798000002042787042802042862000002042803042873042875000002042874042877042877000001007545042878042886000002042879042891042891000001042892042893042893000001000613042896042898000002042897042902042920000002042903042922042922000001000614042923042923000001000604042924042924000001000609042925042925000001000620042926042926000001000618042928042928000001000670042929042929000001000647042930042930000001000669042931042931000001043859042932042946000002042933042948042948000001042900042949042949000001000642042950042950000001007566042951042953000002042952042960042960000001042961042966042968000002042967042997042997000001042998065313065338000001065345066560066599000001066600066736066771000001066776066928066938000001066967066940066954000001066979066956066962000001066995066964066965000001067003068736068786000001068800071840071871000001071872093760093791000001093792125184125217000001125218",
         4)

\* the lower case of one character, as a text: that of U+0130 is two
\* characters; a character without a lower case is kept
LowerChar(c) ==
    IF c = 304 THEN <<105, 775>>
    ELSE LET lowered == {r[4] + (c - r[1]) :
                            r \in {r \in LowerRuns :
                                       r[1] <= c /\ c <= r[2] /\ (c - r[1]) % r[3] = 0}}
         IN  IF lowered = {} THEN <<c>> ELSE <<CHOOSE l \in lowered : TRUE>>

\* the cased characters (the case-ignorable among them left out), and the
\* case-ignorable ones, which decide the lower case of the capital sigma
CasedRanges ==
    Rows(
         "000065000090000097000122000170000170000181000181000186000186000192000214000216000246000248000442000444000447000452000659000661000687000880000883000886000887000891000893000895000895000902000902000904000906000908000908000910000929000931001013001015001153001162001327001329001366001376001416004256004293004295004295004301004301004304004346004349004351005024005109005112005117007296007304007312007354007357007359007424007467007531007543007545007578007680007957007960007965007968008005008008008013008016008023008025008025008027008027008029008029008031008061008064008116008118008124008126008126008130008132008134008140008144008147008150008155008160008172008178008180008182008188008450008450008455008455008458008467008469008469008473008477008484008484008486008486008488008488008490008493008495008500008505008505008508008511008517008521008526008526008544008575008579008580009398009449011264011387011390011492011499011502011506011507011520011557011559011559011565011565042560042605042624042651042786042863042865042887042891042894042896042954042960042961042963042963042965042969042997042998043002043002043824043866043872043880043888043967064256064262064275064279065313065338065345065370066560066639066736066771066776066811066928066938066940066954066956066962066964066965066967066977066979066993066995067001067003067004068736068786068800068850071840071903093760093823119808119892119894119964119966119967119970119970119973119974119977119980119982119993119995119995119997120003120005120069120071120074120077120084120086120092120094120121120123120126120128120132120134120134120138120144120146120485120488120512120514120538120540120570120572120596120598120628120630120654120656120686120688120712120714120744120746120770120772120779122624122633122635122654125184125251127280127305127312127337127344127369",
         2)

CaseIgnorableRanges ==
    Rows(
         "000039000039000046000046000058000058000094000094000096000096000168000168000173000173000175000175000180000180000183000184000688000879000884000885000890000890000900000901000903000903001155001161001369001369001375001375001425001469001471001471001473001474001476001477001479001479001524001524001536001541001552001562001564001564001600001600001611001631001648001648001750001757001759001768001770001773001807001807001809001809001840001866001958001968002027002037002042002042002045002045002070002093002137002139002184002184002192002193002200002207002249002306002362002362002364002364002369002376002381002381002385002391002402002403002417002417002433002433002492002492002497002500002509002509002530002531002558002558002561002562002620002620002625002626002631002632002635002637002641002641002672002673002677002677002689002690002748002748002753002757002759002760002765002765002786002787002810002815002817002817002876002876002879002879002881002884002893002893002901002902002914002915002946002946003008003008003021003021003072003072003076003076003132003132003134003136003142003144003146003149003157003158003170003171003201003201003260003260003263003263003270003270003276003277003298003299003328003329003387003388003393003396003405003405003426003427003457003457003530003530003538003540003542003542003633003633003636003642003654003662003761003761003764003772003782003782003784003789003864003865003893003893003895003895003897003897003953003966003968003972003974003975003981003991003993004028004038004038004141004144004146004151004153004154004157004158004184004185004190004192004209004212004226004226004229004230004237004237004253004253004348004348004957004959005906005908005938005939005970005971006002006003006068006069006071006077006086006086006089006099006103006103006109006109006155006159006211006211006277006278006313006313006432006434006439006440006450006450006457006459006679006680006683006683006742006742006744006750006752006752006754006754006757006764006771006780006783006783006823006823006832006862006912006915006964006964006966006970006972006972006978006978007019007027007040007041007074007077007080007081007083007085007142007142007144007145007149007149007151007153007212007219007222007223007288007293007376007378007380007392007394007400007405007405007412007412007416007417007468007530007544007544007579007679008125008125008127008129008141008143008157008159008173008175008189008190008203008207008216008217008228008228008231008231008234008238008288008292008294008303008305008305008319008319008336008348008400008432011388011389011503011505011631011631011647011647011744011775011823011823012293012293012330012333012337012341012347012347012441012446012540012542040981040981042232042237042508042508042607042610042612042621042623042623042652042655042736042737042752042785042864042864042888042890042994042996043000043001043010043010043014043014043019043019043045043046043052043052043204043205043232043249043263043263043302043309043335043345043392043394043443043443043446043449043452043453043471043471043493043494043561043566043569043570043573043574043587043587043596043596043632043632043644043644043696043696043698043700043703043704043710043711043713043713043741043741043756043757043763043764043766043766043867043871043881043883044005044005044008044008044013044013064286064286064434064450065024065039065043065043065056065071065106065106065109065109065279065279065287065287065294065294065306065306065342065342065344065344065392065392065438065439065507065507065529065531066045066045066272066272066422066426067456067461067463067504067506067514068097068099068101068102068108068111068152068154068159068159068325068326068900068903069291069292069446069456069506069509069633069633069688069702069744069744069747069748069759069761069811069814069817069818069821069821069826069826069837069837069888069890069927069931069933069940070003070003070016070017070070070078070089070092070095070095070191070193070196070196070198070199070206070206070367070367070371070378070400070401070459070460070464070464070502070508070512070516070712070719070722070724070726070726070750070750070835070840070842070842070847070848070850070851071090071093071100071101071103071104071132071133071219071226071229071229071231071232071339071339071341071341071344071349071351071351071453071455071458071461071463071467071727071735071737071738071995071996071998071998072003072003072148072151072154072155072160072160072193072202072243072248072251072254072263072263072273072278072281072283072330072342072344072345072752072758072760072765072767072767072850072871072874072880072882072883072885072886073009073014073018073018073020073021073023073029073031073031073104073105073109073109073111073111073459073460078896078904092912092916092976092982092992092995094031094031094095094111094176094177094179094180110576110579110581110587110589110590113821113822113824113827118528118573118576118598119143119145119155119170119173119179119210119213119362119364121344121398121403121452121461121461121476121476121499121503121505121519122880122886122888122904122907122913122915122916122918122922123184123197123566123566123628123631125136125142125252125259127995127999917505917505917536917631917760917999",
         2)

\* the capital sigma at position i of s is in the final position of a word: a
\* cased character comes before it, case-ignorable ones skipped, and none
\* after it
FinalSigma(s, i) ==
    LET before == {j \in 1..(i - 1) : ~InRanges(s[j], CaseIgnorableRanges)}
        after  == {j \in (i + 1)..Len(s) : ~InRanges(s[j], CaseIgnorableRanges)}
    IN  /\ before # {}
        /\ InRanges(s[CHOOSE j \in before : \A k \in before : k <= j], CasedRanges)
        /\ \/ after = {}
           \/ ~InRanges(s[CHOOSE j \in after : \A k \in after : j <= k], CasedRanges)

\* str.lower()
Lower(s) ==
    LET RECURSIVE From(_)
        From(i) ==
            IF i > Len(s) THEN <<>>
            ELSE (IF s[i] = 931 THEN <<IF FinalSigma(s, i) THEN 962 ELSE 963>>
                  ELSE LowerChar(s[i])) \o From(i + 1)
    IN  From(1)

\* str.strip(): drop leading and trailing whitespace
Strip(s) ==
    LET keep == {i \in 1..Len(s) : s[i] \notin Whitespace}
    IN  IF keep = {} THEN <<>>
        ELSE LET lo == CHOOSE i \in keep : \A j \in keep : i <= j
                 hi == CHOOSE i \in keep : \A j \in keep : j <= i
             IN  SubSeq(s, lo, hi)

\* Python's `p in s` for strings: p occurs in s as a contiguous substring
Contains(s, p) ==
    \E i \in 0..(Len(s) - Len(p)) : SubSeq(s, i + 1, i + Len(p)) = p

\* str.startswith
StartsWith(s, p) == Len(s) >= Len(p) /\ SubSeq(s, 1, Len(p)) = p

\* s[:n]
Prefix(s, n) == SubSeq(s, 1, IF Len(s) < n THEN Len(s) ELSE n)

\* sep.join(parts)
RECURSIVE Join(_, _)
Join(sep, parts) ==
    IF parts = <<>> THEN <<>>
    ELSE IF Len(parts) = 1 THEN parts[1]
    ELSE parts[1] \o sep \o Join(sep, Tail(parts))

(***************************************************************************)
(* Program constants.                                                      *)
(***************************************************************************)
MAX_STEPS == 8

DANGEROUS_PATTERNS == <<
    Text("rm -rf"),
    Text("dd "),
    Text("mkfs"),
    Text("fdisk"),
    Text("parted"),
    Text("systemctl stop"),
    Text("kill -9"),
    Text("chmod 777"),
    Text("> /dev/"),
    Text(":(){ :|:& };:") >>

is_dangerous_mut(command) ==
    LET cmd == Strip(command)
    IN  \E k \in 2..Len(DANGEROUS_PATTERNS) : Contains(cmd, DANGEROUS_PATTERNS[k])

is_dangerous(command) ==
    LET cmd == Strip(command)
    IN  \E k \in 1..Len(DANGEROUS_PATTERNS) : Contains(cmd, DANGEROUS_PATTERNS[k])

ConfirmModes == {"always", "smart", "never"}

(***************************************************************************)
(* String literals of the code.                                            *)
(***************************************************************************)
S_y       == Text("y")
S_yes     == Text("yes")
S_a       == Text("a")
S_all     == Text("all")
S_yes_all == Text("yes all")
S_bash    == Text("bash")
S_tool    == Text("tool:")
S_error   == Text("error:")
S_exit_code    == Text("exit code: ")
S_no_output    == Text("(no output)")
S_no_response  == Text("(no response)")
S_not_found    == Text(" not found")
S_truncated    == Text("\n...(truncated)...\n")
S_unreachable  == Text("hivemind unreachable: ")
S_command_key  == Text("command")
S_path_key     == Text("path")
S_content_key  == Text("content")
S_directory_key == Text("directory")
S_pattern_key  == Text("pattern")
S_text_key     == Text("text")
S_title_key    == Text("title")
S_body_key     == Text("body")
S_url_key      == Text("url")
S_key_key      == Text("key")
S_value_key    == Text("value")
S_name_key     == Text("name")
S_arguments_key == Text("arguments")
S_not_a_file   == Text(" is not a file")
S_not_a_directory == Text(" is not a directory")
S_truncated_8k == Text("\n...(truncated at 8K chars)")
S_wrote        == Text("wrote ")
S_chars_to     == Text(" chars to ")
S_copied       == Text("copied ")
S_to_clipboard == Text(" chars to clipboard")
S_no_matches   == Text("(no matches)")
S_clipboard_empty == Text("(clipboard empty)")
S_notification_sent == Text("notification sent: ")
S_title        == Text("title: ")
S_stored       == Text("stored: ")
S_no_facts     == Text("(no facts stored)")
S_tool_call_open  == Text("<tool_call>")
S_tool_call_close == Text("</tool_call>")

N_shell_exec      == Text("shell_exec")
N_file_read       == Text("file_read")
N_file_write      == Text("file_write")
N_file_list       == Text("file_list")
N_clipboard_read  == Text("clipboard_read")
N_clipboard_write == Text("clipboard_write")
N_notify          == Text("notify")
N_web_fetch       == Text("web_fetch")
N_fact_store      == Text("fact_store")
N_fact_get        == Text("fact_get")

(***************************************************************************)
(* Data model (src/talos/agent.py, src/talos/tools.py).                    *)
(* An optional value (Python None or a value) is <<>> or <<value>>.        *)
(***************************************************************************)
CodeBlock(command) == [command |-> command, lang |-> S_bash]

\* a (text, None) segment and a ("", CodeBlock) segment of ParsedResponse.segments
Reasoning(text) == [text |-> text, block |-> <<>>]
Code(command)   == [text |-> <<>>, block |-> <<CodeBlock(command)>>]

ToolCall(name, arguments) == [name |-> name, arguments |-> arguments]

ParsedResponse(segments, tool_calls, raw) ==
    [segments |-> segments, think_blocks |-> <<>>, tool_calls |-> tool_calls,
     raw |-> raw, error |-> <<>>]

\* build_registry: the name-keyed table; requires_confirm defaults to False
Registry ==
    [n \in {N_shell_exec, N_file_read, N_file_write, N_file_list, N_clipboard_read,
            N_clipboard_write, N_notify, N_web_fetch, N_fact_store, N_fact_get} |->
        [name |-> n, requires_confirm |-> n \in {N_shell_exec, N_file_write}]]

\* a mutation of RegistryGet: a default ToolDef stands in for a missing one
RegistryGet_mut(name) ==
    IF name \in DOMAIN Registry THEN <<Registry[name]>>
    ELSE <<[name |-> name, requires_confirm |-> FALSE]>>

\* registry.get(name): the ToolDef, or None
RegistryGet(name) == IF name \in DOMAIN Registry THEN <<Registry[name]>> ELSE <<>>

(***************************************************************************)
(* shell.Result and its ok property (src/talos/shell.py).                  *)
(***************************************************************************)
Result(command, code, stdout, stderr) ==
    [command |-> command, code |-> code, stdout |-> stdout, stderr |-> stderr]

ResultOk(result) == result.code = 0

\* str(int)
DecimalDigits == Text("0123456789")

RECURSIVE NatToStr(_)
NatToStr(n) ==
    IF n < 10 THEN <<DecimalDigits[n + 1]>>
    ELSE NatToStr(n \div 10) \o <<DecimalDigits[(n % 10) + 1]>>

IntToStr(n) == IF n < 0 THEN Text("-") \o NatToStr(-n) ELSE NatToStr(n)

(***************************************************************************)
(* Truncation of captured output before it is fed back (tui.py 535, 615;   *)
(* tools.py 77).                                                           *)
(***************************************************************************)
TruncateLimit == 4000
TruncateHead  == 2000
TruncateTail  == 1500

Truncate_mut(text) == text

Truncate(text) ==
    IF Len(text) > TruncateLimit
    THEN SubSeq(text, 1, TruncateHead) \o S_truncated
         \o SubSeq(text, Len(text) - TruncateTail + 1, Len(text))
    ELSE text

\* stdout, then stderr on a new line when both are present
CombinedOutput(result) ==
    LET out1 == IF result.stdout # <<>> THEN result.stdout ELSE <<>>
    IN  IF result.stderr # <<>>
        THEN out1 \o (IF out1 # <<>> THEN Text("\n") ELSE <<>>) \o result.stderr
        ELSE out1

\* tools._shell_exec: the text the shell_exec handler returns for a shell result
shell_exec_text(result) ==
    LET output == CombinedOutput(result)
        shown  == IF output = <<>> THEN S_no_output ELSE output
    IN  S_exit_code \o IntToStr(result.code) \o Text("\n") \o Truncate(shown)

\* tools._file_read: the path does not exist
file_read_missing(path) == S_error \o Text(" ") \o path \o S_not_found

\* tools._file_read: the path is not a file
file_read_not_a_file(path) == S_error \o Text(" ") \o path \o S_not_a_file

\* tools._file_read: the text of a file is cut after 8000 characters
FileReadLimit == 8000

\* tools._file_list: the path is not a directory
file_list_not_a_directory(directory) == S_error \o Text(" ") \o directory \o S_not_a_directory

\* the components of a path that pathlib keeps: those between the slashes but
\* for the empty ones and "."
RECURSIVE PathParts(_)
PathParts(path) ==
    IF path = <<>> THEN <<>>
    ELSE LET slashes == {k \in 1..Len(path) : path[k] = Ord("/")}
             cut     == IF slashes = {} THEN Len(path) + 1
                        ELSE CHOOSE k \in slashes : \A l \in slashes : k <= l
             part    == SubSeq(path, 1, cut - 1)
             rest    == PathParts(SubSeq(path, cut + 1, Len(path)))
         IN  IF part \in {<<>>, Text(".")} THEN rest ELSE <<part>> \o rest

\* the root of a path: one slash for an absolute path, two for a path that
\* starts with exactly two slashes
PathRoot(path) ==
    IF Len(path) >= 1 /\ path[1] = Ord("/")
    THEN IF Len(path) >= 2 /\ path[2] = Ord("/") /\ ~(Len(path) >= 3 /\ path[3] = Ord("/"))
         THEN Text("//") ELSE Text("/")
    ELSE <<>>

\* str(e) of an entry e that Path(directory).expanduser().glob(pattern)
\* yields: the directory, as pathlib writes it, and the name of the entry.
\* The directories here do not start with "~", which expanduser() leaves
\* alone in any other place.
EntryPath(directory, name) ==
    PathRoot(directory) \o Join(Text("/"), Append(PathParts(directory), name))

\* tools._file_list: "\n".join(str(e) for e in entries)
file_list_text(directory, names) ==
    Join(Text("\n"), [i \in 1..Len(names) |-> EntryPath(directory, names[i])])

\* len(content) of the contents written here
LenStr(text) == IntToStr(Len(text))

\* tools._file_write: the file was written
file_write_done(path, content) == S_wrote \o LenStr(content) \o S_chars_to \o path

\* tools._clipboard_write: the text was copied
clipboard_write_done(text) == S_copied \o LenStr(text) \o S_to_clipboard

\* arguments are a sequence of <<key, value>> pairs
ArgKeys(arguments) == {arguments[i][1] : i \in 1..Len(arguments)}
ArgValue(arguments, key) ==
    arguments[CHOOSE i \in 1..Len(arguments) : arguments[i][1] = key][2]

(***************************************************************************)
(* Confirmation policy (tui.py, _agentic_step).                            *)
(***************************************************************************)
\* answer.strip().lower()
Normalise(answer) == Lower(Strip(answer))

\* answer in ("a", "all", "yes all")
SetsAutoRun(answer) == answer \in {S_a, S_all, S_yes_all}

\* a mutation of Proceeds: every answer runs the block
Proceeds_mut(answer) == TRUE

\* the block is run: the answer sets auto-run, or is one of ("y", "yes", "")
Proceeds(answer) == SetsAutoRun(answer) \/ answer \in {S_y, S_yes, <<>>}

\* a mutation of ShouldPromptCode: auto-run suppresses the prompt of any block
ShouldPromptCode_mut(auto, mode, dangerous) ==
    IF auto THEN FALSE
    ELSE IF mode = "never" /\ ~dangerous THEN FALSE
    ELSE IF mode = "smart" /\ ~dangerous /\ ~auto THEN FALSE
    ELSE TRUE

\* a mutation of ShouldPromptCode: the smart branch is lost
ShouldPromptCode_mut2(auto, mode, dangerous) ==
    IF auto /\ ~dangerous THEN FALSE
    ELSE IF mode = "never" /\ ~dangerous THEN FALSE
    ELSE TRUE

\* a mutation of ShouldPromptCode: the auto-run flag is not looked at
ShouldPromptCode_mut3(auto, mode, dangerous) ==
    IF mode = "never" /\ ~dangerous THEN FALSE
    ELSE IF mode = "smart" /\ ~dangerous /\ ~auto THEN FALSE
    ELSE TRUE

\* should_prompt of the code-block path
ShouldPromptCode(auto, mode, dangerous) ==
    IF auto /\ ~dangerous THEN FALSE
    ELSE IF mode = "never" /\ ~dangerous THEN FALSE
    ELSE IF mode = "smart" /\ ~dangerous /\ ~auto THEN FALSE
    ELSE TRUE

\* should_prompt of the tool-call path; no prompt unless requires_confirm
ShouldPromptTool(auto, mode, requires_confirm) ==
    IF ~requires_confirm THEN FALSE
    ELSE IF auto THEN FALSE
    ELSE IF mode = "never" THEN FALSE
    ELSE TRUE

\* success = not result_str.startswith("error:")
ToolSuccess(result_str) == ~StartsWith(result_str, S_error)

(***************************************************************************)
(* build_interaction (tui.py).                                             *)
(***************************************************************************)
SummaryLimit == 500

\* c.get("success", False)
GetSuccess(c) == IF "success" \in DOMAIN c THEN c.success ELSE FALSE

\* a mutation of AllSuccess: any() in place of all()
AllSuccess_mut(commands) ==
    \E i \in 1..Len(commands) : GetSuccess(commands[i])

\* all(c.get("success", False) for c in commands)
RECURSIVE AllSuccess(_)
AllSuccess(commands) ==
    IF commands = <<>> THEN TRUE
    ELSE GetSuccess(Head(commands)) /\ AllSuccess(Tail(commands))

\* None when no command was executed, else the interaction record
build_interaction(query, commands, response_summary) ==
    IF commands = <<>> THEN <<>>
    ELSE << [user_query |-> query,
             commands |-> commands,
             response_summary |-> Prefix(response_summary, SummaryLimit),
             success |-> AllSuccess(commands)] >>

\* the entry appended to executed_commands for a code block that was run
CodeRecord(command, result) ==
    [command |-> command, success |-> ResultOk(result), exit_code |-> result.code]

\* the entry appended to executed_commands for a tool call that was run
ToolRecord(name, success) ==
    [command |-> S_tool \o name, success |-> success,
     exit_code |-> IF success THEN 0 ELSE 1]

\* "\n".join(text for text, block in parsed.segments if text and block is None)
IsFinalText(seg) == seg.text # <<>> /\ seg.block = <<>>
SegText(seg) == seg.text

\* a mutation of FinalText: only the last reasoning text is kept
FinalText_mut(response) ==
    LET kept == SelectSeq(response.segments, IsFinalText)
    IN  IF kept = <<>> THEN <<>> ELSE SegText(kept[Len(kept)])

FinalText(response) ==
    LET kept == SelectSeq(response.segments, IsFinalText)
    IN  Join(Text("\n"), [i \in 1..Len(kept) |-> SegText(kept[i])])

(***************************************************************************)
(* The turns of the conversation history (src/talos/agent.py).             *)
(***************************************************************************)
\* the character U+0060 of the fences
Backtick == 96

Fence == <<Backtick, Backtick, Backtick>>

\* every turn stored with the role of the assistant
Turn_mut(role, content) == [role |-> "assistant", content |-> content]

Turn(role, content) == [role |-> role, content |-> content]

S_Command == Text("Command: ")
S_Output  == Text("Output:")

\* output_msg of feed_result and stream_feed_result
OutputMsg(command, result) ==
    S_Command \o <<Backtick>> \o command \o <<Backtick, Newline>> \o S_Output
        \o Text("\n") \o Fence \o Text("\n") \o result \o Text("\n") \o Fence

\* the user turn of Agent.stream_feed_tool_result, which mirrors stream_feed_result
\* with the name of the tool for the command
stream_feed_tool_result(tool_name, result_str) == OutputMsg(tool_name, result_str)

(***************************************************************************)
(* Inputs: what the user types, what the backend replies, what the shell   *)
(* and the tool handlers return.                                           *)
(***************************************************************************)
\* how many commands or tool calls the backend asks for in one cycle, at most
MaxExec == 2

Query  == Text("q")
Ls     == Text("ls")
RmRf   == Text("rm -rf /")
T_hi   == Text("hi")
T_done == Text("Done.")
F_path == Text("f")
ExcText == Text("refused")

\* what the user may enter at the run? [y/n/a] prompt; eof is EOF or Ctrl-C
RawAnswers ==
    { <<>>, S_y, <<32, 89, 11>>, S_yes, S_a, Text("All"), S_yes_all, Text("n") }
PromptInputs ==
    {[eof |-> TRUE, text |-> <<>>]} \cup {[eof |-> FALSE, text |-> t] : t \in RawAnswers}

\* no prompt was shown
NoInput == [eof |-> FALSE, text |-> <<>>]

\* what shell.run may return for a command that ends in time
ShellOutcomes(command) ==
    { Result(command, 0, Text("ok"), <<>>),
      Result(command, 1, <<>>, Text("no")) }

\* the keyword parameters of the handlers: those without a default, and all
Required ==
    [n \in DOMAIN Registry |->
        CASE n = N_shell_exec      -> {S_command_key}
          [] n = N_file_read       -> {S_path_key}
          [] n = N_file_write      -> {S_path_key, S_content_key}
          [] n = N_clipboard_write -> {S_text_key}
          [] n = N_notify          -> {S_title_key}
          [] n = N_web_fetch       -> {S_url_key}
          [] n = N_fact_store      -> {S_key_key, S_value_key}
          [] OTHER                 -> {}]

Accepted ==
    [n \in DOMAIN Registry |->
        CASE n = N_file_list -> {S_directory_key, S_pattern_key}
          [] n = N_notify    -> {S_title_key, S_body_key}
          [] n = N_fact_get  -> {S_key_key}
          [] OTHER           -> Required[n]]

\* handler(**arguments) binds: every parameter without a default is given and no
\* other keyword is
Binds(tc) ==
    /\ Required[tc.name] \subseteq ArgKeys(tc.arguments)
    /\ ArgKeys(tc.arguments) \subseteq Accepted[tc.name]

\* arguments.get(key, default)
ArgOr(arguments, key, default) ==
    IF key \in ArgKeys(arguments) THEN ArgValue(arguments, key) ELSE default

\* a text of more than 8000 characters, as read from a large file
LongFile == [i \in 1..(FileReadLimit + 1) |-> IF i <= FileReadLimit THEN Ord("x") ELSE Ord("y")]

\* what a file holds
FileTexts == {T_hi, <<>>, LongFile}

\* tools._file_read once the path is a file: the text, cut at 8000 characters
file_read_text(text) ==
    IF Len(text) > FileReadLimit
    THEN SubSeq(text, 1, FileReadLimit) \o S_truncated_8k
    ELSE text

\* the names of the entries a directory holds that match the pattern, sorted,
\* when there are some
DirEntries == {<<F_path>>, <<F_path, Text("g")>>}

\* the texts a handler may return when its arguments bind
Returned(tc) ==
    LET a == tc.arguments
    IN  CASE tc.name = N_shell_exec ->
                {shell_exec_text(r) : r \in ShellOutcomes(ArgValue(a, S_command_key))}
          [] tc.name = N_file_read ->
                {file_read_missing(ArgValue(a, S_path_key)),
                 file_read_not_a_file(ArgValue(a, S_path_key)),
                 S_error \o Text(" ") \o ExcText}
                \cup {file_read_text(t) : t \in FileTexts}
          [] tc.name = N_file_write ->
                {file_write_done(ArgValue(a, S_path_key), ArgValue(a, S_content_key)),
                 S_error \o Text(" ") \o ExcText}
          [] tc.name = N_file_list ->
                {file_read_missing(ArgOr(a, S_directory_key, Text("."))),
                 file_list_not_a_directory(ArgOr(a, S_directory_key, Text("."))),
                 S_no_matches, S_error \o Text(" ") \o ExcText}
                \cup {file_list_text(ArgOr(a, S_directory_key, Text(".")), names) :
                          names \in DirEntries}
          [] tc.name = N_clipboard_read -> {T_hi, S_clipboard_empty}
          [] tc.name = N_clipboard_write ->
                {clipboard_write_done(ArgValue(a, S_text_key))}
          [] tc.name = N_notify -> {S_notification_sent \o ArgValue(a, S_title_key)}
          [] tc.name = N_web_fetch ->
                {S_error \o Text(" ") \o ExcText,
                 S_title \o T_hi \o Text("\n") \o T_done}
          [] tc.name = N_fact_store ->
                {S_error \o Text(" ") \o ExcText,
                 S_stored \o ArgValue(a, S_key_key) \o Text(" = ")
                     \o ArgValue(a, S_value_key)}
          [] tc.name = N_fact_get ->
                {S_error \o Text(" ") \o ExcText, S_no_facts,
                 ArgOr(a, S_key_key, <<>>) \o Text(" = ") \o T_hi}

\* the exit code of the command a shell_exec call ran, 0 for any other text
CodeOf(text) ==
    IF StartsWith(text, S_exit_code) /\ ~StartsWith(text, S_exit_code \o Text("0"))
    THEN 1 ELSE 0

\* tool_def.handler(**tc.arguments): the text returned, or the exception raised
\* (a TypeError when the arguments do not bind, or an error of the handler);
\* code is the exit code of the command a shell_exec call ran
HandlerOutcomes(tc) ==
    IF ~Binds(tc)
    THEN {[raised |-> TRUE, text |-> ExcText, code |-> 0]}
    ELSE {[raised |-> FALSE, text |-> t, code |-> CodeOf(t)] : t \in Returned(tc)}
         \cup {[raised |-> TRUE, text |-> ExcText, code |-> 0]}

\* result_str of the tool path: the handler's text, or "error: {e}"
ResultStr(ho) ==
    IF ho.raised THEN S_error \o Text(" ") \o ho.text ELSE ho.text

TC_shell_rm == ToolCall(N_shell_exec, << <<S_command_key, RmRf>> >>)
TC_shell_bad == ToolCall(N_shell_exec, <<>>)
TC_read     == ToolCall(N_file_read, << <<S_path_key, F_path>> >>)
TC_bogus    == ToolCall(Text("bogus"), <<>>)

\* the tag of a tool call in the text of a reply
RECURSIVE JsonPairs(_)
JsonPairs(arguments) ==
    IF arguments = <<>> THEN <<>>
    ELSE Text("\"") \o Head(arguments)[1] \o Text("\": \"") \o Head(arguments)[2]
         \o Text("\"") \o (IF Len(arguments) > 1 THEN Text(", ") ELSE <<>>)
         \o JsonPairs(Tail(arguments))

ToolCallTag(tc) ==
    S_tool_call_open \o Text("{\"") \o S_name_key \o Text("\": \"") \o tc.name
        \o Text("\", \"") \o S_arguments_key \o Text("\": {")
        \o JsonPairs(tc.arguments) \o Text("}}") \o S_tool_call_close

\* a reply with a fenced command between two lines of text
FencedLs == T_hi \o Text("\n") \o Fence \o S_bash \o Text("\n") \o Ls \o Text("\n") \o Fence
                 \o Text("\n") \o T_done

\* two lines of text around a fence without a command
EmptyFence == T_hi \o Text("\n") \o Fence \o Text("\n") \o Fence \o Text("\n") \o T_done

FencedRmLs == Fence \o S_bash \o Text("\n") \o RmRf \o Text("\n") \o Fence \o Text("\n")
                  \o Fence \o S_bash \o Text("\n") \o Ls \o Text("\n") \o Fence

\* a line of text and the tags of two tool calls
TextSh  == T_hi \o Text("\n") \o ToolCallTag(TC_shell_rm) \o ToolCallTag(TC_shell_bad)
TextMix == T_hi \o Text("\n") \o ToolCallTag(TC_bogus) \o ToolCallTag(TC_read)

\* the parsed replies of the backend: raw is the text, segments what parse_response
\* cuts it into, tool_calls the calls its tags carry
R_final    == ParsedResponse(<<Reasoning(T_done)>>, <<>>, T_done)
R_final2   == ParsedResponse(<<Reasoning(T_hi), Reasoning(T_done)>>, <<>>, EmptyFence)
R_ls       == ParsedResponse(<<Reasoning(T_hi), Code(Ls), Reasoning(T_done)>>, <<>>,
                             FencedLs)
R_rm_ls    == ParsedResponse(<<Code(RmRf), Code(Ls)>>, <<>>, FencedRmLs)
R_tool_sh  == ParsedResponse(<<Reasoning(TextSh)>>, <<TC_shell_rm, TC_shell_bad>>, TextSh)
R_tool_mix == ParsedResponse(<<Reasoning(TextMix), Code(Ls)>>, <<TC_bogus, TC_read>>,
                             TextMix \o Text("\n") \o Fence \o S_bash \o Text("\n") \o Ls
                                 \o Text("\n") \o Fence)

Responses == {R_final, R_final2, R_ls, R_rm_ls, R_tool_sh, R_tool_mix}

HasBlock(response) ==
    \E i \in 1..Len(response.segments) : response.segments[i].block # <<>>
Actionable(response) == response.tool_calls # <<>> \/ HasBlock(response)

(***************************************************************************)
(* parse_response (src/talos/agent.py): the text is cut at the matches of  *)
(* _CODE_BLOCK_RE (three backticks, a run of word characters, a newline,   *)
(* a lazy body of any characters, three backticks), found from left to     *)
(* right without overlap.                                                  *)
(***************************************************************************)
\* the characters \w matches in a str pattern: the alphanumeric ones and the
\* underscore
WordRanges ==
    Rows(
         "000048000057000065000090000095000095000097000122000170000170000178000179000181000181000185000186000188000190000192000214000216000246000248000705000710000721000736000740000748000748000750000750000880000884000886000887000890000893000895000895000902000902000904000906000908000908000910000929000931001013001015001153001162001327001329001366001369001369001376001416001488001514001519001522001568001610001632001641001646001647001649001747001749001749001765001766001774001788001791001791001808001808001810001839001869001957001969001969001984002026002036002037002042002042002048002069002074002074002084002084002088002088002112002136002144002154002160002183002185002190002208002249002308002361002365002365002384002384002392002401002406002415002417002432002437002444002447002448002451002472002474002480002482002482002486002489002493002493002510002510002524002525002527002529002534002545002548002553002556002556002565002570002575002576002579002600002602002608002610002611002613002614002616002617002649002652002654002654002662002671002674002676002693002701002703002705002707002728002730002736002738002739002741002745002749002749002768002768002784002785002790002799002809002809002821002828002831002832002835002856002858002864002866002867002869002873002877002877002908002909002911002913002918002927002929002935002947002947002949002954002958002960002962002965002969002970002972002972002974002975002979002980002984002986002990003001003024003024003046003058003077003084003086003088003090003112003114003129003133003133003160003162003165003165003168003169003174003183003192003198003200003200003205003212003214003216003218003240003242003251003253003257003261003261003293003294003296003297003302003311003313003314003332003340003342003344003346003386003389003389003406003406003412003414003416003425003430003448003450003455003461003478003482003505003507003515003517003517003520003526003558003567003585003632003634003635003648003654003664003673003713003714003716003716003718003722003724003747003749003749003751003760003762003763003773003773003776003780003782003782003792003801003804003807003840003840003872003891003904003911003913003948003976003980004096004138004159004169004176004181004186004189004193004193004197004198004206004208004213004225004238004238004240004249004256004293004295004295004301004301004304004346004348004680004682004685004688004694004696004696004698004701004704004744004746004749004752004784004786004789004792004798004800004800004802004805004808004822004824004880004882004885004888004954004969004988004992005007005024005109005112005117005121005740005743005759005761005786005792005866005870005880005888005905005919005937005952005969005984005996005998006000006016006067006103006103006108006108006112006121006128006137006160006169006176006264006272006276006279006312006314006314006320006389006400006430006470006509006512006516006528006571006576006601006608006618006656006678006688006740006784006793006800006809006823006823006917006963006981006988006992007001007043007072007086007141007168007203007232007241007245007293007296007304007312007354007357007359007401007404007406007411007413007414007418007418007424007615007680007957007960007965007968008005008008008013008016008023008025008025008027008027008029008029008031008061008064008116008118008124008126008126008130008132008134008140008144008147008150008155008160008172008178008180008182008188008304008305008308008313008319008329008336008348008450008450008455008455008458008467008469008469008473008477008484008484008486008486008488008488008490008493008495008505008508008511008517008521008526008526008528008585009312009371009450009471010102010131011264011492011499011502011506011507011517011517011520011557011559011559011565011565011568011623011631011631011648011670011680011686011688011694011696011702011704011710011712011718011720011726011728011734011736011742011823011823012293012295012321012329012337012341012344012348012353012438012445012447012449012538012540012543012549012591012593012686012690012693012704012735012784012799012832012841012872012879012881012895012928012937012977012991013312019903019968042124042192042237042240042508042512042539042560042606042623042653042656042735042775042783042786042888042891042954042960042961042963042963042965042969042994043009043011043013043015043018043020043042043056043061043072043123043138043187043216043225043250043255043259043259043261043262043264043301043312043334043360043388043396043442043471043481043488043492043494043518043520043560043584043586043588043595043600043609043616043638043642043642043646043695043697043697043701043702043705043709043712043712043714043714043739043741043744043754043762043764043777043782043785043790043793043798043808043814043816043822043824043866043868043881043888044002044016044025044032055203055216055238055243055291063744064109064112064217064256064262064275064279064285064285064287064296064298064310064312064316064318064318064320064321064323064324064326064433064467064829064848064911064914064967065008065019065136065140065142065276065296065305065313065338065345065370065382065470065474065479065482065487065490065495065498065500065536065547065549065574065576065594065596065597065599065613065616065629065664065786065799065843065856065912065930065931066176066204066208066256066273066299066304066339066349066378066384066421066432066461066464066499066504066511066513066517066560066717066720066729066736066771066776066811066816066855066864066915066928066938066940066954066956066962066964066965066967066977066979066993066995067001067003067004067072067382067392067413067424067431067456067461067463067504067506067514067584067589067592067592067594067637067639067640067644067644067647067669067672067702067705067742067751067759067808067826067828067829067835067867067872067897067968068023068028068047068050068096068112068115068117068119068121068149068160068168068192068222068224068255068288068295068297068324068331068335068352068405068416068437068440068466068472068497068521068527068608068680068736068786068800068850068858068899068912068921069216069246069248069289069296069297069376069415069424069445069457069460069488069505069552069579069600069622069635069687069714069743069745069746069749069749069763069807069840069864069872069881069891069926069942069951069956069956069959069959069968070002070006070006070019070066070081070084070096070106070108070108070113070132070144070161070163070187070272070278070280070280070282070285070287070301070303070312070320070366070384070393070405070412070415070416070419070440070442070448070450070451070453070457070461070461070480070480070493070497070656070708070727070730070736070745070751070753070784070831070852070853070855070855070864070873071040071086071128071131071168071215071236071236071248071257071296071338071352071352071360071369071424071450071472071483071488071494071680071723071840071922071935071942071945071945071948071955071957071958071960071983071999071999072001072001072016072025072096072103072106072144072161072161072163072163072192072192072203072242072250072250072272072272072284072329072349072349072368072440072704072712072714072750072768072768072784072812072818072847072960072966072968072969072971073008073030073030073040073049073056073061073063073064073066073097073112073112073120073129073440073458073648073648073664073684073728074649074752074862074880075075077712077808077824078894082944083526092160092728092736092766092768092777092784092862092864092873092880092909092928092975092992092995093008093017093019093025093027093047093053093071093760093846093952094026094032094032094099094111094176094177094179094179094208100343100352101589101632101640110576110579110581110587110589110590110592110882110928110930110948110951110960111355113664113770113776113788113792113800113808113817119520119539119648119672119808119892119894119964119966119967119970119970119973119974119977119980119982119993119995119995119997120003120005120069120071120074120077120084120086120092120094120121120123120126120128120132120134120134120138120144120146120485120488120512120514120538120540120570120572120596120598120628120630120654120656120686120688120712120714120744120746120770120772120779120782120831122624122654123136123180123191123197123200123209123214123214123536123565123584123627123632123641124896124902124904124907124909124910124912124926124928125124125127125135125184125251125259125259125264125273126065126123126125126127126129126132126209126253126255126269126464126467126469126495126497126498126500126500126503126503126505126514126516126519126521126521126523126523126530126530126535126535126537126537126539126539126541126543126545126546126548126548126551126551126553126553126555126555126557126557126559126559126561126562126564126564126567126570126572126578126580126583126585126588126590126590126592126601126603126619126625126627126629126633126635126651127232127244130032130041131072173791173824177976177984178205178208183969183984191456194560195101196608201546",
         2)

IsWord(c) == InRanges(c, WordRanges)

FenceAt(text, i) == i >= 1 /\ i + 2 <= Len(text) /\ SubSeq(text, i, i + 2) = Fence

\* the language group is greedy: the position after the longest run of word characters from i
WordEnd(text, i) ==
    LET stops == {k \in i..Len(text) : ~IsWord(text[k])}
    IN  IF stops = {} THEN Len(text) + 1
        ELSE CHOOSE k \in stops : \A l \in stops : k <= l

\* an unclosed fence taken as closed by the end of the text
Closers_mut(text, k) == {j \in (k + 1)..(Len(text) + 1) : FenceAt(text, j) \/ j = Len(text) + 1}

\* the positions after the newline at k where the closing ``` can start
Closers(text, k) == {j \in (k + 1)..Len(text) : FenceAt(text, j)}

\* the match of _CODE_BLOCK_RE starting at i, as <<match>> or <<>>; the body group
\* is lazy, so the body ends at the first closing ```
MatchAt(text, i) ==
    IF ~FenceAt(text, i) THEN <<>>
    ELSE LET k == WordEnd(text, i + 3)
         IN  IF k > Len(text) \/ text[k] # Newline \/ Closers(text, k) = {} THEN <<>>
             ELSE LET j == CHOOSE c \in Closers(text, k) : \A d \in Closers(text, k) : c <= d
                  IN  << [start |-> i,
                          lang  |-> SubSeq(text, i + 3, k - 1),
                          body  |-> SubSeq(text, k + 1, j - 1),
                          end   |-> j + 3] >>

\* the next match of finditer at or after position p
NextMatch(text, p) ==
    LET starts == {i \in p..Len(text) : MatchAt(text, i) # <<>>}
    IN  IF starts = {} THEN <<>>
        ELSE MatchAt(text, CHOOSE i \in starts : \A l \in starts : i <= l)

CodeSegment(command, lang) ==
    [text |-> <<>>, block |-> <<[command |-> command, lang |-> lang]>>]

\* the fallback segment is lost: no segments for a text without content
AfterLoop_mut(text, p, segments) ==
    LET trailing == Strip(SubSeq(text, p, Len(text)))
    IN  IF trailing # <<>> THEN Append(segments, Reasoning(trailing)) ELSE segments

\* the two statements after the loop: the trailing reasoning, and the whole text as
\* reasoning if there are no segments at all
AfterLoop(text, p, segments) ==
    LET trailing == Strip(SubSeq(text, p, Len(text)))
        segs == IF trailing # <<>> THEN Append(segments, Reasoning(trailing))
                ELSE segments
    IN  IF segs = <<>> THEN <<Reasoning(Strip(text))>> ELSE segs

\* a block is emitted whatever its body
EmitCode_mut(segments, code, lang) == Append(segments, CodeSegment(code, lang))

\* `if code: segments.append(("", CodeBlock(command=code, lang=lang)))`
EmitCode(segments, code, lang) ==
    IF code # <<>> THEN Append(segments, CodeSegment(code, lang)) ELSE segments

\* the loop over finditer and the statements after it; last_end is p - 1
RECURSIVE ParseFrom(_, _, _)
ParseFrom(text, p, segments) ==
    LET nm == NextMatch(text, p)
    IN  IF nm = <<>>
        THEN AfterLoop(text, p, segments)
        ELSE LET mt     == nm[1]
                 before == Strip(SubSeq(text, p, mt.start - 1))
                 lang   == IF mt.lang # <<>> THEN mt.lang ELSE S_bash
                 code   == Strip(mt.body)
                 s1     == IF before # <<>> THEN Append(segments, Reasoning(before))
                           ELSE segments
             IN  ParseFrom(text, mt.end, EmitCode(s1, code, lang))

parse_response(text) ==
    [segments |-> ParseFrom(text, 1, <<>>), raw |-> text, error |-> <<>>]

(***************************************************************************)
(* Streaming feed-back (agent.py stream_feed_result, tui.py                *)
(* _stream_feed_result and _stream_feed_tool_result).                      *)
(***************************************************************************)
\* error_msg = f"\n[hivemind unreachable: {exc}]", yielded as a chunk of the reply
ErrorMsg(exc) == Text("\n[") \o S_unreachable \o exc \o Text("]")

\* the ParsedResponse of a reply that broke off with a caught failure:
\* parse_response of the text received so far joined with error_msg
WithErrorText(response, exc) ==
    [response EXCEPT !.segments = parse_response(response.raw \o ErrorMsg(exc)).segments,
                     !.raw = response.raw \o ErrorMsg(exc)]

NothingReceived == ParsedResponse(<<>>, <<>>, <<>>)
NoResponse      == ParsedResponse(<<Reasoning(S_no_response)>>, <<>>, <<>>)

\* the replies a stream may break off after
PartialReplies == {NothingReceived, R_ls}

\* the replies of the backend inside a session, where every reply stays in the
\* history for good: fewer than for a call of _agentic_step on its own
TextBs == T_hi \o Text("\n") \o ToolCallTag(TC_bogus) \o ToolCallTag(TC_shell_rm)
R_tool_bs == ParsedResponse(<<Reasoning(TextBs)>>, <<TC_bogus, TC_shell_rm>>, TextBs)

SessionResponses == {R_final, R_ls, R_tool_bs}

Replies  == IF phase = "step" THEN Responses ELSE SessionResponses
Partials == IF phase = "step" THEN PartialReplies ELSE {NothingReceived}

\* what a feed-back request may meet once n commands have run: a reply, an empty
\* reply, a connection failure (one of _CONNECT_ERRORS) after part of a reply, or
\* a failure that is none of _CONNECT_ERRORS (httpx.ConnectTimeout, ReadError,
\* RemoteProtocolError), which no except clause catches
FeedOutcomes(n) ==
    LET replies  == IF n < exec_limit THEN Replies
                    ELSE {r \in Replies : ~Actionable(r)}
        partials == IF n < exec_limit THEN Partials
                    ELSE {r \in Partials : ~Actionable(r)}
    IN  {[kind |-> "reply", parsed |-> r] : r \in replies}
        \cup {[kind |-> "empty", parsed |-> NothingReceived]}
        \cup {[kind |-> "connect_error", parsed |-> r] : r \in partials}
        \cup {[kind |-> "raise", parsed |-> NothingReceived]}

\* the ParsedResponse _stream_feed_result returns when the request does not raise;
\* its error field is never set
StreamFeed(fo) ==
    CASE fo.kind = "reply" -> fo.parsed
      [] fo.kind = "empty" -> NoResponse
      [] fo.kind = "connect_error" -> WithErrorText(fo.parsed, ExcText)

\* full_text of stream_feed_result, stored as the assistant turn unless it is empty
Stored(response) ==
    IF response.raw # <<>> THEN <<Turn("assistant", response.raw)>> ELSE <<>>

vars == <<confirm_mode, registry_on, parsed, iteration, pc, idx, auto_run, set_by, step,
          executed_commands, interaction, outcome, summary, last, pending, fed, requests,
          fb_failed, exec_limit, phase, granted, chat, sink, bg, history, io>>

\* what a step of _agentic_step leaves alone: the session
outerVars == <<exec_limit, phase, granted, chat, sink, bg, io>>

NoStep ==
    [kind |-> "none", tool |-> <<>>, command |-> <<>>, had_tools |-> FALSE,
     prompted |-> FALSE, eof |-> FALSE, answer |-> <<>>, ran |-> FALSE,
     auto_before |-> FALSE, set_by_before |-> <<>>, failed |-> FALSE]

NoFeed == [kind |-> "none", name |-> <<>>, output |-> <<>>]

NoChat == [attempts |-> 0, failures |-> 0, at |-> "none"]
NoCall == [fn |-> "none"]

\* the history as stream_chat left it: the user's message and the reply
AfterChat(response) == <<Turn("user", Query)>> \o Stored(response)

Init ==
    /\ confirm_mode \in ConfirmModes
    /\ registry_on \in BOOLEAN
    /\ parsed \in Responses \cup {NoResponse}
    /\ iteration = 0
    /\ pc = "top"
    /\ idx = 0
    /\ auto_run = FALSE
    /\ set_by = <<>>
    /\ step = 0
    /\ executed_commands = <<>>
    /\ interaction = <<>>
    /\ outcome = "running"
    /\ summary = <<>>
    /\ last = NoStep
    /\ pending = NoStep
    /\ fed = NoFeed
    /\ requests = 0
    /\ fb_failed = FALSE
    /\ exec_limit = MaxExec
    /\ phase = "step"
    /\ granted = FALSE
    /\ chat = NoChat
    /\ sink = 0
    /\ bg = FALSE
    /\ history = AfterChat(parsed)
    /\ io = NoCall

\* return build_interaction(query, executed_commands, final_text) after the summary
ReturnFinal ==
    /\ summary' = FinalText(parsed)
    /\ interaction' = build_interaction(Query, executed_commands, FinalText(parsed))
    /\ outcome' = "final"
    /\ pc' = "done"
    /\ idx' = 0

\* a mutation of AfterFeed: no break, the loop goes on with the same response
AfterFeed_mut(newParsed, commands) ==
    /\ parsed' = parsed
    /\ idx' = idx + 1
    /\ summary' = summary
    /\ outcome' = outcome
    /\ interaction' = interaction
    /\ pc' = IF pc = "code_feed" THEN "code" ELSE "tools"

\* the new response after a feed-back request: the error sentinel aborts the loop,
\* any other response is handed to the next iteration (break)
AfterFeed(newParsed, commands) ==
    /\ parsed' = newParsed
    /\ idx' = 0
    /\ summary' = summary
    /\ IF newParsed.error # <<>>
       THEN /\ outcome' = "error"
            /\ interaction' = build_interaction(Query, commands, <<>>)
            /\ pc' = "done"
       ELSE /\ outcome' = outcome
            /\ interaction' = interaction
            /\ pc' = "top"

\* an exception leaves _agentic_step: nothing is returned
Raise ==
    /\ pc' = "raised"
    /\ outcome' = "raised"
    /\ UNCHANGED <<parsed, idx, summary, interaction>>

\* a mutation of LoopContinues: one iteration too many
LoopContinues_mut(i) == i <= MAX_STEPS

\* `for _iteration in range(MAX_STEPS)` has another iteration after i of them
LoopContinues(i) == i < MAX_STEPS

\* a mutation of TakesToolPath: code blocks are looked at first
TakesToolPath_mut(response, registry) ==
    response.tool_calls # <<>> /\ registry /\ ~HasBlock(response)

\* `if parsed.tool_calls and registry`
TakesToolPath(response, registry) == response.tool_calls # <<>> /\ registry

\* the head of an iteration: think blocks are rendered, then the tool-call path is
\* taken if there are tool calls and a registry, else the code-block path
BeginIteration ==
    /\ pc = "top"
    /\ LoopContinues(iteration)
    /\ iteration' = iteration + 1
    /\ pc' = IF TakesToolPath(parsed, registry_on) THEN "tools" ELSE "code"
    /\ idx' = 1
    /\ UNCHANGED <<confirm_mode, registry_on, parsed, auto_run, set_by, step,
                   executed_commands, interaction, outcome, summary, last, pending, fed,
                   requests, fb_failed, history>>
    /\ UNCHANGED outerVars

\* the loop ran out: "reached max 8 steps"
MaxStepsReached ==
    /\ pc = "top"
    /\ ~LoopContinues(iteration)
    /\ outcome' = "max_steps"
    /\ interaction' = build_interaction(Query, executed_commands, <<>>)
    /\ pc' = "done"
    /\ UNCHANGED <<confirm_mode, registry_on, parsed, iteration, idx, auto_run, set_by, step,
                   executed_commands, summary, last, pending, fed, requests, fb_failed,
                   history>>
    /\ UNCHANGED outerVars

(***************************************************************************)
(* The steps of one block or tool call. The coroutine is suspended at the  *)
(* confirmation prompt, while the command or the handler runs and while    *)
(* the feed-back request is answered; a step goes from one await to the    *)
(* next. pending describes the block or call being dealt with.             *)
(***************************************************************************)
\* the prompt returned: an interrupt or an answer
Answered(item, input) ==
    [item EXCEPT !.eof = input.eof,
                 !.answer = IF input.eof THEN <<>> ELSE Normalise(input.text)]

\* `answer = answer.strip().lower()`, then the two tests on it: the item is skipped
\* (continue), or it is run, with auto-run set by an answer of a, all or yes all
Answer(at_loop, at_run) ==
    \E input \in PromptInputs :
        LET answer == Normalise(input.text)
        IN  IF input.eof \/ ~Proceeds(answer)
            THEN /\ last' = Answered(pending, input)
                 /\ pending' = NoStep
                 /\ pc' = at_loop
                 /\ idx' = idx + 1
                 /\ UNCHANGED <<auto_run, set_by>>
            ELSE /\ pending' = Answered(pending, input)
                 /\ pc' = at_run
                 /\ auto_run' = (auto_run \/ SetsAutoRun(answer))
                 /\ set_by' = IF ~auto_run /\ SetsAutoRun(answer) THEN answer ELSE set_by
                 /\ UNCHANGED <<last, idx>>

\* the reply to a feed-back request was read to its end, or the request raised
Fed ==
    \E fo \in FeedOutcomes(Len(executed_commands)) :
        IF fo.kind = "raise"
        THEN /\ Raise
             /\ UNCHANGED <<fb_failed, history>>
        ELSE /\ fb_failed' = (fb_failed \/ fo.kind = "connect_error")
             /\ history' = history \o Stored(StreamFeed(fo))
             /\ AfterFeed(StreamFeed(fo), executed_commands)

(***************************************************************************)
(* The tool-call path: `for tc in parsed.tool_calls`.                      *)
(***************************************************************************)
AtToolCall == pc = "tools" /\ idx <= Len(parsed.tool_calls)
CurrentCall == parsed.tool_calls[idx]

ToolStep(tc, prompted, input, ran, failed) ==
    [kind |-> "tool", tool |-> tc.name,
     command |-> IF S_command_key \in ArgKeys(tc.arguments)
                 THEN ArgValue(tc.arguments, S_command_key) ELSE <<>>,
     had_tools |-> TRUE,
     prompted |-> prompted,
     eof |-> prompted /\ input.eof,
     answer |-> IF prompted /\ ~input.eof THEN Normalise(input.text) ELSE <<>>,
     ran |-> ran, auto_before |-> auto_run, set_by_before |-> set_by,
     failed |-> failed]

\* registry.get(tc.name) is None: "unknown tool", continue
ToolUnknown ==
    /\ AtToolCall
    /\ RegistryGet(CurrentCall.name) = <<>>
    /\ idx' = idx + 1
    /\ UNCHANGED <<confirm_mode, registry_on, parsed, iteration, pc, auto_run, set_by, step,
                   executed_commands, interaction, outcome, summary, last, pending, fed,
                   requests, fb_failed, history>>
    /\ UNCHANGED outerVars

\* a known tool: the call is rendered and should_prompt is worked out; the prompt
\* is shown, or the handler is called at once
ToolBegin ==
    /\ AtToolCall
    /\ RegistryGet(CurrentCall.name) # <<>>
    /\ LET tool_def == RegistryGet(CurrentCall.name)[1]
           prompt   == ShouldPromptTool(auto_run, confirm_mode, tool_def.requires_confirm)
       IN  /\ pending' = ToolStep(CurrentCall, prompt, NoInput, FALSE, FALSE)
           /\ pc' = IF prompt THEN "tool_prompt" ELSE "tool_run"
    /\ UNCHANGED <<confirm_mode, registry_on, parsed, iteration, idx, auto_run, set_by, step,
                   executed_commands, interaction, outcome, summary, last, fed,
                   requests, fb_failed, history>>
    /\ UNCHANGED outerVars

\* the prompt for a tool call returns
ToolAnswer ==
    /\ pc = "tool_prompt"
    /\ Answer("tools", "tool_run")
    /\ UNCHANGED <<confirm_mode, registry_on, parsed, iteration, step, executed_commands,
                   interaction, outcome, summary, fed, requests, fb_failed, history>>
    /\ UNCHANGED outerVars

\* the handler returned or raised: the result is recorded and truncated, and the
\* feed-back request is sent with it
ToolRun ==
    /\ pc = "tool_run"
    /\ \E ho \in HandlerOutcomes(CurrentCall) :
         LET result_str == ResultStr(ho)
             success    == ToolSuccess(result_str)
         IN  /\ executed_commands' =
                    Append(executed_commands, ToolRecord(CurrentCall.name, success))
             /\ last' = [pending EXCEPT !.ran = TRUE, !.failed = ho.raised \/ ho.code # 0]
             /\ fed' = [kind |-> "tool", name |-> CurrentCall.name,
                        output |-> Truncate(result_str)]
             /\ history' = Append(history,
                                  Turn("user", stream_feed_tool_result(CurrentCall.name,
                                                                      Truncate(result_str))))
    /\ pending' = NoStep
    /\ requests' = requests + 1
    /\ pc' = "tool_feed"
    /\ UNCHANGED <<confirm_mode, registry_on, parsed, iteration, idx, auto_run, set_by, step,
                   interaction, outcome, summary, fb_failed>>
    /\ UNCHANGED outerVars

\* the feed-back request for a tool result is answered, and the loop goes on with
\* the new response
ToolFeed ==
    /\ pc = "tool_feed"
    /\ Fed
    /\ UNCHANGED <<confirm_mode, registry_on, iteration, auto_run, set_by, step,
                   executed_commands, last, pending, fed, requests>>
    /\ UNCHANGED outerVars

\* the for loop ended without break: return if there are no tool calls, else continue
ToolLoopEnd ==
    /\ pc = "tools"
    /\ idx > Len(parsed.tool_calls)
    /\ IF parsed.tool_calls = <<>>
       THEN ReturnFinal
       ELSE /\ pc' = "top"
            /\ idx' = 0
            /\ UNCHANGED <<interaction, outcome, summary>>
    /\ UNCHANGED <<confirm_mode, registry_on, parsed, iteration, auto_run, set_by, step,
                   executed_commands, last, pending, fed, requests, fb_failed, history>>
    /\ UNCHANGED outerVars

(***************************************************************************)
(* The code-block path: `for text, block in parsed.segments`.              *)
(***************************************************************************)
AtSegment == pc = "code" /\ idx <= Len(parsed.segments)
CurrentBlock == parsed.segments[idx].block[1]

CodeStep(block, prompted, input, ran, failed) ==
    [kind |-> "code", tool |-> <<>>, command |-> block.command,
     had_tools |-> parsed.tool_calls # <<>>,
     prompted |-> prompted,
     eof |-> prompted /\ input.eof,
     answer |-> IF prompted /\ ~input.eof THEN Normalise(input.text) ELSE <<>>,
     ran |-> ran, auto_before |-> auto_run, set_by_before |-> set_by,
     failed |-> failed]

\* a reasoning segment: rendered, `if block is None: continue`
SegmentText ==
    /\ AtSegment
    /\ parsed.segments[idx].block = <<>>
    /\ idx' = idx + 1
    /\ UNCHANGED <<confirm_mode, registry_on, parsed, iteration, pc, auto_run, set_by, step,
                   executed_commands, interaction, outcome, summary, last, pending, fed,
                   requests, fb_failed, history>>
    /\ UNCHANGED outerVars

\* a code block: the step counter goes up, the command is rendered and should_prompt
\* is worked out; the prompt is shown, or the command is started at once
CodeBegin ==
    /\ AtSegment
    /\ parsed.segments[idx].block # <<>>
    /\ LET prompt == ShouldPromptCode(auto_run, confirm_mode,
                                      is_dangerous(CurrentBlock.command))
       IN  /\ pending' = CodeStep(CurrentBlock, prompt, NoInput, FALSE, FALSE)
           /\ pc' = IF prompt THEN "code_prompt" ELSE "code_run"
    /\ step' = step + 1
    /\ UNCHANGED <<confirm_mode, registry_on, parsed, iteration, idx, auto_run, set_by,
                   executed_commands, interaction, outcome, summary, last, fed,
                   requests, fb_failed, history>>
    /\ UNCHANGED outerVars

\* the prompt for a code block returns
CodeAnswer ==
    /\ pc = "code_prompt"
    /\ Answer("code", "code_run")
    /\ UNCHANGED <<confirm_mode, registry_on, parsed, iteration, step, executed_commands,
                   interaction, outcome, summary, fed, requests, fb_failed, history>>
    /\ UNCHANGED outerVars

\* shell.run returned: the result is recorded, the output is truncated and the
\* feed-back request is sent with it
CodeRun ==
    /\ pc = "code_run"
    /\ \E result \in ShellOutcomes(CurrentBlock.command) :
         LET output_text == Truncate(CombinedOutput(result))
         IN  /\ executed_commands' =
                    Append(executed_commands, CodeRecord(CurrentBlock.command, result))
             /\ last' = [pending EXCEPT !.ran = TRUE, !.failed = result.code # 0]
             /\ fed' = [kind |-> "command", name |-> CurrentBlock.command,
                        output |-> output_text]
             /\ history' = Append(history,
                                  Turn("user", OutputMsg(CurrentBlock.command, output_text)))
    /\ pending' = NoStep
    /\ requests' = requests + 1
    /\ pc' = "code_feed"
    /\ UNCHANGED <<confirm_mode, registry_on, parsed, iteration, idx, auto_run, set_by, step,
                   interaction, outcome, summary, fb_failed>>
    /\ UNCHANGED outerVars

\* shell.run raised: the timeout fired, and the process had ended and had been
\* dropped by the transport before proc.kill()
CodeRunRaises ==
    /\ pc = "code_run"
    /\ Raise
    /\ UNCHANGED <<confirm_mode, registry_on, iteration, auto_run, set_by, step,
                   executed_commands, last, pending, fed, requests, fb_failed, history>>
    /\ UNCHANGED outerVars

\* the feed-back request for a command is answered, and the loop goes on with the
\* new response
CodeFeed ==
    /\ pc = "code_feed"
    /\ Fed
    /\ UNCHANGED <<confirm_mode, registry_on, iteration, auto_run, set_by, step,
                   executed_commands, last, pending, fed, requests>>
    /\ UNCHANGED outerVars

\* the for loop ended without break: no code block was run, the reasoning texts are
\* the final summary
SegmentsEnd ==
    /\ pc = "code"
    /\ idx > Len(parsed.segments)
    /\ ReturnFinal
    /\ UNCHANGED <<confirm_mode, registry_on, parsed, iteration, auto_run, set_by, step,
                   executed_commands, last, pending, fed, requests, fb_failed, history>>
    /\ UNCHANGED outerVars

Next ==
    \/ BeginIteration
    \/ MaxStepsReached
    \/ ToolUnknown
    \/ ToolBegin
    \/ ToolAnswer
    \/ ToolRun
    \/ ToolFeed
    \/ ToolLoopEnd
    \/ SegmentText
    \/ CodeBegin
    \/ CodeAnswer
    \/ CodeRun
    \/ CodeRunRaises
    \/ CodeFeed
    \/ SegmentsEnd

Spec == Init /\ [][Next]_vars

(***************************************************************************)
(* The values of the variables a specification does not use.               *)
(***************************************************************************)
NoCycle ==
    /\ confirm_mode = "always"
    /\ registry_on = FALSE
    /\ parsed = NoResponse
    /\ iteration = 0
    /\ pc = "idle"
    /\ idx = 0
    /\ auto_run = FALSE
    /\ set_by = <<>>
    /\ step = 0
    /\ executed_commands = <<>>
    /\ interaction = <<>>
    /\ outcome = "running"
    /\ summary = <<>>
    /\ last = NoStep
    /\ pending = NoStep
    /\ fed = NoFeed
    /\ requests = 0
    /\ fb_failed = FALSE
    /\ exec_limit = 0

NoSession ==
    /\ phase = "idle"
    /\ granted = FALSE
    /\ chat = NoChat
    /\ sink = 0
    /\ bg = FALSE

cycleVars == <<confirm_mode, registry_on, parsed, iteration, pc, idx, auto_run, set_by,
               step, executed_commands, interaction, outcome, summary, last, pending, fed,
               requests, fb_failed, exec_limit>>
sessionVars == <<phase, granted, chat, sink, bg>>

(***************************************************************************)
(* build_interaction on its own: the function applied to lists of command  *)
(* records and to summaries around the 500-character limit.                *)
(***************************************************************************)
MaxCommands == 2

\* a text of n characters whose characters past the limit differ from those before
LongText(n) == [i \in 1..n |-> IF i <= SummaryLimit THEN Ord("x") ELSE Ord("y")]

Summaries ==
    {<<>>, T_done, LongText(SummaryLimit - 1), LongText(SummaryLimit),
     LongText(SummaryLimit + 1), LongText(2 * SummaryLimit)}

\* the entries the two paths append, and one without the success key
CommandRecords ==
    {CodeRecord(Ls, r) : r \in ShellOutcomes(Ls)}
    \cup {ToolRecord(N_shell_exec, b) : b \in BOOLEAN}
    \cup {[command |-> RmRf]}

RECURSIVE SeqsUpTo(_, _)
SeqsUpTo(S, n) ==
    IF n = 0 THEN {<<>>}
    ELSE LET shorter == SeqsUpTo(S, n - 1)
         IN  shorter \cup {Append(q, x) : q \in shorter, x \in S}

BuildInit ==
    /\ NoCycle
    /\ NoSession
    /\ history = <<>>
    /\ io \in {[fn |-> "arguments", query |-> Query, commands |-> c, summary |-> t] :
                  c \in SeqsUpTo(CommandRecords, MaxCommands), t \in Summaries}

\* build_interaction(query, commands, response_summary) is called
CallBuildInteraction ==
    /\ io.fn = "arguments"
    /\ io' = [fn |-> "build_interaction", query |-> io.query,
               commands |-> io.commands, summary |-> io.summary,
               result |-> build_interaction(io.query, io.commands, io.summary)]
    /\ UNCHANGED <<cycleVars, sessionVars, history>>

BuildNext == CallBuildInteraction

BuildSpec == BuildInit /\ [][BuildNext]_vars

(***************************************************************************)
(* parse_response on its own: the function applied to texts put together   *)
(* from a few pieces.                                                      *)
(***************************************************************************)
MaxTokens == 6

\* the pieces model output is put together from
Tokens == {Fence, <<Backtick>>, Text("a"), Text("\n"), Text(" "), <<11>>}

RECURSIVE Flatten(_)
Flatten(parts) == IF parts = <<>> THEN <<>> ELSE Head(parts) \o Flatten(Tail(parts))

ParseInit ==
    /\ NoCycle
    /\ NoSession
    /\ history = <<>>
    /\ io \in {[fn |-> "text", text |-> Flatten(q)] : q \in SeqsUpTo(Tokens, MaxTokens)}

\* parse_response(text) is called
CallParseResponse ==
    /\ io.fn = "text"
    /\ io' = [fn |-> "parse_response", text |-> io.text, result |-> parse_response(io.text)]
    /\ UNCHANGED <<cycleVars, sessionVars, history>>

ParseNext == CallParseResponse

ParseSpec == ParseInit /\ [][ParseNext]_vars

(***************************************************************************)
(* The agent's requests and its conversation history (src/talos/agent.py): *)
(* chat and feed_result, the streaming requests as _stream_response and    *)
(* _stream_feed_result of src/talos/tui.py consume them, reset, the web    *)
(* page injection of _handle_web and the load of a saved conversation.     *)
(***************************************************************************)
\* the exception classes the except clauses of the requests name
CONNECT_ERRORS == {"ConnectError", "ReadTimeout", "HTTPStatusError"}

\* how a request can fail in transport: the backend refuses the connection, the
\* reply or the connection times out (timeout=120.0 covers both), the status is not 2xx
TransportFailures == {"ConnectError", "ReadTimeout", "ConnectTimeout", "HTTPStatusError"}

\* failures that can strike after part of the reply was streamed
MidStreamFailures == {"ReadTimeout"}

error_response(msg) == [segments |-> <<Reasoning(msg)>>, raw |-> <<>>, error |-> msg]

\* ParsedResponse(segments=[("(no response)", None)], raw="")
NoResponseParsed == [segments |-> <<Reasoning(S_no_response)>>, raw |-> <<>>, error |-> <<>>]

S_WebPage == Text("[Web page: ")

\* the content of a message whose "content" is null: Python's None, a value that
\* is no text
NoContent == <<-1>>

\* what the await of http.post, raise_for_status and the reading of the body can
\* give: a reply whose message has a text (one of them empty) or null for its
\* content, a 200 reply that is not JSON or has no choices, a failure in transport
PostOutcomes ==
    {[kind |-> "ok", content |-> c] : c \in {T_done, FencedLs, <<>>, NoContent}}
    \cup {[kind |-> "malformed"]}
    \cup {[kind |-> "raise", exc |-> e] : e \in TransportFailures}

\* the replies of a stream, as the chunks of their lines
StreamReplies == {<<>>, <<T_done>>, <<T_hi, Text("\n") \o Fence>>}

\* what http.stream can give: the chunks of a reply and then [DONE], chunks and
\* then a failure, or a failure while the stream is opened
StreamOutcomes ==
    {[chunks |-> c, end |-> "done"] : c \in StreamReplies}
    \cup UNION {{[chunks |-> SubSeq(c, 1, k), end |-> e] :
                     k \in 0..Len(c), e \in MidStreamFailures} : c \in StreamReplies}
    \cup {[chunks |-> <<>>, end |-> e] : e \in TransportFailures}

MaxTurns == 4

\* the values io takes while a request is in flight
Sent(fn)   == [fn |-> "send", call |-> fn]
Opened(fn) == [fn |-> "open", call |-> fn]
Yielded(fn) == [fn |-> "chunk", call |-> fn]

\* chat and feed_result up to their await: the user turn is appended and the
\* request is sent; before is the history the call found
PostRequest(fn, user_content) ==
    /\ chat = NoChat
    /\ Len(history) + 2 <= MaxTurns
    /\ history' = Append(history, Turn("user", user_content))
    /\ chat' = [at |-> "post", fn |-> fn, user |-> user_content, before |-> history]
    /\ io' = Sent(fn)
    /\ UNCHANGED <<cycleVars, phase, granted, sink, bg>>

\* stream_chat and stream_feed_result, as _stream_response and
\* _stream_feed_result iterate them, up to their first await: the user turn is
\* appended and the request is sent
StreamRequest(fn, user_content) ==
    /\ chat = NoChat
    /\ Len(history) + 2 <= MaxTurns
    /\ history' = Append(history, Turn("user", user_content))
    /\ chat' = [at |-> "stream", fn |-> fn, user |-> user_content, before |-> history,
                 accumulated |-> <<>>]
    /\ io' = Sent(fn)
    /\ UNCHANGED <<cycleVars, phase, granted, sink, bg>>

\* Agent.chat(message)
Chat == PostRequest("chat", Query)

\* Agent.feed_result(command, result)
FeedResult == PostRequest("feed_result", OutputMsg(Ls, T_hi))

\* _stream_response over Agent.stream_chat(message)
StreamResponse == StreamRequest("stream_chat", Query)

\* _stream_feed_result over Agent.stream_feed_result(command, output_text)
StreamFeedResult == StreamRequest("stream_feed_result", OutputMsg(Ls, T_hi))

\* the await of http.post is over, the rest of chat and feed_result runs: a caught
\* failure gives the error sentinel, any other is raised; the content of the reply
\* is stored as the assistant turn and parsed, and parse_response(None) raises a
\* TypeError. received is the content of the reply, if there was one
PostReturns ==
    \E o \in PostOutcomes :
        LET caught == o.kind = "raise" /\ o.exc \in CONNECT_ERRORS
            parses == o.kind = "ok" /\ o.content # NoContent
        IN  /\ chat.at = "post"
            /\ history' = IF o.kind = "ok"
                          THEN Append(history, Turn("assistant", o.content))
                          ELSE history
            /\ io' = [fn |-> chat.fn, streaming |-> FALSE, user |-> chat.user,
                       before |-> chat.before,
                       failure |-> IF o.kind = "raise" THEN <<o.exc>> ELSE <<>>,
                       received |-> IF o.kind = "ok" THEN <<o.content>> ELSE <<>>,
                       raised |-> ~caught /\ ~parses,
                       result |-> IF parses THEN <<parse_response(o.content)>>
                                  ELSE IF caught
                                  THEN <<error_response(S_unreachable \o ExcText)>>
                                  ELSE <<>>]
            /\ chat' = NoChat
            /\ UNCHANGED <<cycleVars, phase, granted, sink, bg>>

\* the await that opens the stream is over and raise_for_status passed: the first
\* line is awaited
StreamOpens ==
    /\ chat.at = "stream"
    /\ chat' = [chat EXCEPT !.at = "lines"]
    /\ io' = Opened(chat.fn)
    /\ UNCHANGED <<cycleVars, phase, granted, sink, bg, history>>

\* a line with a chunk arrived: the chunk is accumulated and yielded to the loop of
\* _stream_response or _stream_feed_result, and the next line is awaited
StreamChunk ==
    \E o \in StreamOutcomes :
        /\ chat.at = "lines"
        /\ Len(chat.accumulated) < Len(o.chunks)
        /\ SubSeq(o.chunks, 1, Len(chat.accumulated)) = chat.accumulated
        /\ chat' = [chat EXCEPT !.accumulated = Append(@, o.chunks[Len(@) + 1])]
        /\ io' = Yielded(chat.fn)
        /\ UNCHANGED <<cycleVars, phase, granted, sink, bg, history>>

\* the stream is over: its last line arrived, or an await of it raised, while
\* the stream was opened or while a line was awaited; a caught failure is yielded
\* as one more chunk, the joined text is stored as the assistant turn unless it
\* is empty, and the loop that joined the chunks parses them; any other failure
\* is raised. received is the text the loop joined
StreamEnds ==
    \E o \in StreamOutcomes :
        LET caught    == o.end \in CONNECT_ERRORS
            raised    == o.end # "done" /\ ~caught
            yielded   == IF caught THEN Append(o.chunks, ErrorMsg(ExcText)) ELSE o.chunks
            full_text == Flatten(yielded)
        IN  /\ chat.at \in {"stream", "lines"}
            /\ o.chunks = chat.accumulated
            /\ IF chat.at = "stream" THEN o.end \in TransportFailures
               ELSE o.end \in {"done"} \cup MidStreamFailures
            /\ history' = IF ~raised /\ full_text # <<>>
                          THEN Append(history, Turn("assistant", full_text))
                          ELSE history
            /\ io' = [fn |-> chat.fn, streaming |-> TRUE, user |-> chat.user,
                       before |-> chat.before,
                       failure |-> IF o.end # "done" THEN <<o.end>> ELSE <<>>,
                       received |-> IF raised THEN <<>> ELSE <<full_text>>,
                       raised |-> raised,
                       result |-> IF raised THEN <<>>
                                  ELSE IF full_text = <<>> THEN <<NoResponseParsed>>
                                  ELSE <<parse_response(full_text)>>]
            /\ chat' = NoChat
            /\ UNCHANGED <<cycleVars, phase, granted, sink, bg>>

\* the line "reset": Agent.reset(), also while a request is awaited
Reset ==
    /\ history # <<>>
    /\ history' = <<>>
    /\ io' = [fn |-> "reset"]
    /\ UNCHANGED <<cycleVars, sessionVars>>

\* what the await of Agent.web_fetch gives _handle_web: a page, or a result with
\* the key "error"
WebOutcomes == {"page", "error"}

\* the line "web <url>", _handle_web: a result with an error is printed and nothing
\* else happens; the text of a page becomes a user turn
HandleWeb ==
    \E o \in WebOutcomes :
        /\ Len(history) + 1 <= MaxTurns
        /\ history' = IF o = "page"
                      THEN Append(history, Turn("user", S_WebPage \o T_hi \o Text("]\n") \o T_done))
                      ELSE history
        /\ io' = [fn |-> "web", outcome |-> o]
        /\ UNCHANGED <<cycleVars, sessionVars>>

\* the messages of the saved conversation, as the conversation store returns them
SavedMessages == <<Turn("user", Text("hello")), Turn("assistant", Text("hi there"))>>

\* what the conversation store answers a load: the saved conversation, success
\* false for an id it does not know, or the request fails and the result has the
\* key "error"
LoadOutcomes == {"loaded", "not_found", "error"}

\* Agent.conversation_load(conv_id): on success the history becomes the messages of
\* the saved conversation, one turn per message in their order; otherwise it is
\* left alone
conversation_load(hist, o) == IF o = "loaded" THEN SavedMessages ELSE hist

\* the line "load <id>", _handle_load
HandleLoad ==
    \E o \in LoadOutcomes :
        /\ history' = conversation_load(history, o)
        /\ io' = [fn |-> "load", outcome |-> o]
        /\ UNCHANGED <<cycleVars, sessionVars>>

AgentInit ==
    /\ NoCycle
    /\ NoSession
    /\ history = <<>>
    /\ io = NoCall

AgentNext ==
    \/ Chat
    \/ FeedResult
    \/ StreamResponse
    \/ StreamFeedResult
    \/ PostReturns
    \/ StreamOpens
    \/ StreamChunk
    \/ StreamEnds
    \/ Reset
    \/ HandleWeb
    \/ HandleLoad

AgentSpec == AgentInit /\ [][AgentNext]_vars

\* ---------------------------------------------------------------------------
\* shell.run (shell.py).  What the system does with the command is the record
\* [spawn, ends, returncode, stdout, stderr, at_kill]: whether the subprocess
\* can be created, whether it exits within the timeout and with what, and, when
\* the timeout fires, what proc.kill() finds: the process running, the process
\* exited while the asyncio transport still holds it (kill() then does nothing),
\* or the process exited and dropped by the transport (kill() then raises
\* ProcessLookupError).
\* ---------------------------------------------------------------------------
T_timed_out == Text("timed out")

ShellEnvs ==
    [spawn : {"ok", "OSError"}, ends : {"exit", "timeout"}, returncode : {0, 1, 3, -9},
     stdout : {<<>>, Text("ok")}, stderr : {<<>>, Text("no")},
     at_kill : {"running", "exited", "dropped"}]

\* run(command): [raised, result], result being <<>> when an exception leaves run
shell_run(command, env) ==
    IF env.spawn # "ok"
    THEN [raised |-> "none", result |-> <<Result(command, -1, <<>>, ExcText)>>]
    ELSE IF env.ends = "exit"
    THEN [raised |-> "none",
          result |-> <<Result(command, env.returncode, env.stdout, env.stderr)>>]
    ELSE IF env.at_kill # "dropped"
    THEN [raised |-> "none", result |-> <<Result(command, -1, <<>>, T_timed_out)>>]
    ELSE [raised |-> "ProcessLookupError", result |-> <<>>]

(***************************************************************************)
(* The session: the input loop of run() (src/talos/tui.py) around the      *)
(* agentic cycles, with the rating prompt and the fire-and-forget tasks.   *)
(***************************************************************************)
SessionExec == 2

\* what the first request for a message may meet: as for a feed-back request
ChatOutcomes == FeedOutcomes(0)

\* the ParsedResponse _stream_response returns; its error field is never set
StreamChat(co) == StreamFeed(co)

\* Agent.learning_queue_add(interaction): the interaction sink receives the record
learning_queue_add(received) == received + 1

\* the fire-and-forget tasks that send a request to the backend
BackendTasks == {"conversation_log", "learning_queue_add"}

\* asyncio.create_task(task): a backend request is outstanding from now on
CreateTask(outstanding, task) == outstanding \/ task \in BackendTasks

\* _agentic_step is entered with fresh locals: auto_run = False, step = 0, no commands
FreshCycle(response) ==
    /\ parsed' = response
    /\ iteration' = 0
    /\ pc' = "entry"
    /\ idx' = 0
    /\ auto_run' = FALSE
    /\ set_by' = <<>>
    /\ step' = 0
    /\ executed_commands' = <<>>
    /\ interaction' = <<>>
    /\ outcome' = "running"
    /\ summary' = <<>>
    /\ last' = NoStep
    /\ pending' = NoStep
    /\ fed' = NoFeed
    /\ requests' = 0
    /\ fb_failed' = FALSE
    /\ sink' = 0

\* the locals of _agentic_step and what it returned
sessionLocals == <<parsed, iteration, pc, idx, auto_run, set_by, step, executed_commands,
                   interaction, outcome, summary, last, pending, fed, requests, fb_failed>>

\* the lines typed in a session that are handled, queries and others, at most
SessionMessages == 2

\* the queries sent so far
Messages(turns) == Cardinality({i \in 1..Len(turns) : turns[i] = Turn("user", Query)})

\* io in a session: the lines other than queries handled so far, and the queries
\* whose turns a reset or a load took out of the history
LinesHandled(call) == IF call.fn = "line" THEN call.lines ELSE 0
QueriesDropped(call) == IF call.fn = "line" THEN call.dropped ELSE 0

\* the lines handled so far
LinesTyped == LinesHandled(io) + QueriesDropped(io) + Messages(history)

\* a query for the model is sent: stream_chat stores the user's message and makes
\* the request (into is where its cycle will run: at the top level or at the rating
\* prompt)
SendMessage(into) ==
    /\ LinesTyped < SessionMessages
    /\ chat' = [at |-> into, attempts |-> 1, failures |-> 0]
    /\ history' = Append(history, Turn("user", Query))
    /\ phase' = "request"

\* a line at the input prompt that is a query for the model
UserMessage ==
    /\ phase = "input"
    /\ SendMessage("cycle")
    /\ UNCHANGED <<cycleVars, granted, sink, bg, io>>

\* a line was handled that turned the history from before into after
LineHandled(call, before, after) ==
    [fn |-> "line", lines |-> LinesHandled(call) + 1,
     dropped |-> QueriesDropped(call) + Messages(before) - Messages(after)]

\* the line "reset" at the input prompt: Agent.reset()
LineReset ==
    /\ phase = "input"
    /\ LinesTyped < SessionMessages
    /\ history' = <<>>
    /\ io' = LineHandled(io, history, history')
    /\ UNCHANGED <<cycleVars, sessionVars>>

\* the line "web <url>" at the input prompt: _handle_web
LineWeb ==
    /\ phase = "input"
    /\ LinesTyped < SessionMessages
    /\ \E o \in WebOutcomes :
          history' = IF o = "page"
                     THEN Append(history, Turn("user", S_WebPage \o T_hi \o Text("]\n") \o T_done))
                     ELSE history
    /\ io' = LineHandled(io, history, history')
    /\ UNCHANGED <<cycleVars, sessionVars>>

\* the line "load <id>" at the input prompt: _handle_load
LineLoad ==
    /\ phase = "input"
    /\ LinesTyped < SessionMessages
    /\ \E o \in LoadOutcomes : history' = conversation_load(history, o)
    /\ io' = LineHandled(io, history, history')
    /\ UNCHANGED <<cycleVars, sessionVars>>

\* what may leave shell.run for a command typed at the prompt
LineShellRaises == {shell_run(c, env).raised : c \in {Ls, RmRf}, env \in ShellEnvs}

\* the line "!cmd" at the input prompt: the command is handed to the shell with
\* no check for danger and no prompt, its output is printed and nothing is said to
\* the agent; an exception of shell.run leaves run()
LineShell ==
    /\ phase = "input"
    /\ LinesTyped < SessionMessages
    /\ \E raised \in LineShellRaises :
          phase' = IF raised = "none" THEN "input" ELSE "end"
    /\ io' = LineHandled(io, history, history)
    /\ UNCHANGED <<cycleVars, granted, chat, sink, bg, history>>

\* the retries of a request whose response has its error set: one after the delay
\* at the input prompt, none for a query typed at the rating prompt
Retries(into) == IF into = "cycle" THEN 1 ELSE 0

\* the reply to the request for a message was read to its end, or the request
\* raised and the exception leaves run(); a response whose error is set is retried
\* after the delay or given up, any other is handed to _agentic_step
MessageReply ==
    /\ phase = "request"
    /\ \E co \in ChatOutcomes :
         IF co.kind = "raise"
         THEN /\ phase' = "end"
              /\ UNCHANGED <<sessionLocals, chat, sink, history>>
         ELSE LET r      == StreamChat(co)
                  failed == chat.failures + (IF co.kind = "connect_error" THEN 1 ELSE 0)
              IN  IF r.error = <<>>
                  THEN /\ chat' = [chat EXCEPT !.failures = failed]
                       /\ history' = history \o Stored(r)
                       /\ phase' = chat.at
                       /\ FreshCycle(r)
                  ELSE /\ UNCHANGED <<sessionLocals, sink>>
                       /\ IF chat.attempts <= Retries(chat.at)
                          THEN /\ chat' = [chat EXCEPT !.failures = failed,
                                                       !.attempts = @ + 1]
                               /\ history' = history \o Stored(r) \o <<Turn("user", Query)>>
                               /\ phase' = "request"
                          ELSE /\ chat' = [chat EXCEPT !.failures = failed]
                               /\ history' = history \o Stored(r)
                               /\ phase' = "input"
    /\ UNCHANGED <<confirm_mode, registry_on, exec_limit, granted, bg, io>>

\* the conversation_log tasks created before _agentic_step is called
EnterCycle_mut ==
    /\ phase \in {"cycle", "nested"}
    /\ pc = "entry"
    /\ pc' = "top"
    /\ chat' = NoChat
    /\ bg' = CreateTask(bg, "conversation_log")
    /\ UNCHANGED <<confirm_mode, registry_on, parsed, iteration, idx, auto_run, set_by,
                   step, executed_commands, interaction, outcome, summary, last,
                   pending, fed,
                   requests, fb_failed, exec_limit, phase, granted, sink, history, io>>

\* the call of _agentic_step with the response
EnterCycle ==
    /\ phase \in {"cycle", "nested"}
    /\ pc = "entry"
    /\ pc' = "top"
    /\ chat' = NoChat
    /\ UNCHANGED <<confirm_mode, registry_on, parsed, iteration, idx, auto_run, set_by,
                   step, executed_commands, interaction, outcome, summary, last,
                   pending, fed,
                   requests, fb_failed, exec_limit, phase, granted, sink, bg, history, io>>

\* _agentic_step returns to run(): its locals are gone, the interaction is kept;
\* the commands run count against what the backend asks for in the session
Return ==
    /\ parsed' = NoResponse
    /\ iteration' = 0
    /\ pc' = "idle"
    /\ idx' = 0
    /\ auto_run' = FALSE
    /\ set_by' = <<>>
    /\ step' = 0
    /\ executed_commands' = <<>>
    /\ outcome' = "running"
    /\ summary' = <<>>
    /\ last' = NoStep
    /\ pending' = NoStep
    /\ fed' = NoFeed
    /\ requests' = 0
    /\ fb_failed' = FALSE
    /\ exec_limit' = exec_limit - Len(executed_commands)
    /\ granted' = (granted \/ set_by \in {S_a, S_all})
    /\ UNCHANGED <<confirm_mode, registry_on, interaction, chat, history, io>>

\* _agentic_step returned at the top level: the two conversation_log tasks are
\* created; with an interaction it is rated and submitted, and the rating prompt is
\* shown
CycleEnd ==
    /\ phase = "cycle"
    /\ pc = "done"
    /\ bg' = CreateTask(bg, "conversation_log")
    /\ IF interaction # <<>>
       THEN sink' = learning_queue_add(sink) /\ phase' = "rating"
       ELSE sink' = sink /\ phase' = "input"
    /\ Return

\* what the user may enter at the rating prompt
RatingInputs == {"eof", "", "+", "-", "exit", "help", "query"}

\* the rating prompt: + or - resubmits the interaction with the new rating; any
\* other non-empty input is a new line: exit, help, or a query whose cycle is run here
Rating ==
    /\ phase = "rating"
    /\ \E rating_input \in RatingInputs :
          CASE rating_input \in {"+", "-"} ->
                 /\ sink' = learning_queue_add(sink)
                 /\ bg' = CreateTask(bg, "learning_queue_add")
                 /\ phase' = "input"
                 /\ UNCHANGED <<sessionLocals, confirm_mode, registry_on, exec_limit,
                                granted, chat, history, io>>
            [] rating_input \in {"eof", "", "help"} ->
                 /\ phase' = "input"
                 /\ UNCHANGED <<sessionLocals, confirm_mode, registry_on, exec_limit,
                                granted, chat, sink, bg, history, io>>
            [] rating_input = "exit" ->
                 /\ phase' = "end"
                 /\ UNCHANGED <<sessionLocals, confirm_mode, registry_on, exec_limit,
                                granted, chat, sink, bg, history, io>>
            [] rating_input = "query" ->
                 /\ SendMessage("nested")
                 /\ UNCHANGED <<cycleVars, granted, sink, bg, io>>

\* _agentic_step returned for a query typed at the rating prompt: the interaction
\* is rated and submitted; no log task, no rating prompt
NestedEnd ==
    /\ phase = "nested"
    /\ pc = "done"
    /\ sink' = IF interaction # <<>> THEN learning_queue_add(sink) ELSE sink
    /\ bg' = IF interaction # <<>> THEN CreateTask(bg, "learning_queue_add") ELSE bg
    /\ phase' = "input"
    /\ Return

\* an exception left _agentic_step: it leaves run() as well
CycleRaised ==
    /\ phase \in {"cycle", "nested"}
    /\ pc = "raised"
    /\ phase' = "end"
    /\ Return
    /\ UNCHANGED <<sink, bg>>

\* EOF, Ctrl-C or exit at the input prompt
SessionExit ==
    /\ phase = "input"
    /\ phase' = "end"
    /\ UNCHANGED <<cycleVars, granted, chat, sink, bg, history, io>>

\* the requests of the fire-and-forget tasks have all completed
TasksComplete ==
    /\ bg
    /\ bg' = FALSE
    /\ UNCHANGED <<cycleVars, phase, granted, chat, sink, history, io>>

SessionInit ==
    /\ confirm_mode = "always"
    /\ registry_on \in BOOLEAN
    /\ parsed = NoResponse
    /\ iteration = 0
    /\ pc = "idle"
    /\ idx = 0
    /\ auto_run = FALSE
    /\ set_by = <<>>
    /\ step = 0
    /\ executed_commands = <<>>
    /\ interaction = <<>>
    /\ outcome = "running"
    /\ summary = <<>>
    /\ last = NoStep
    /\ pending = NoStep
    /\ fed = NoFeed
    /\ requests = 0
    /\ fb_failed = FALSE
    /\ exec_limit = SessionExec
    /\ phase = "input"
    /\ granted = FALSE
    /\ chat = NoChat
    /\ sink = 0
    /\ bg = FALSE
    /\ history = <<>>
    /\ io = NoCall

SessionNext ==
    \/ UserMessage
    \/ LineReset
    \/ LineWeb
    \/ LineLoad
    \/ LineShell
    \/ MessageReply
    \/ EnterCycle
    \/ Next
    \/ CycleEnd
    \/ CycleRaised
    \/ Rating
    \/ NestedEnd
    \/ SessionExit
    \/ TasksComplete

SessionSpec == SessionInit /\ [][SessionNext]_vars

(***************************************************************************)
(* Properties.                                                             *)
(***************************************************************************)
LastEntry == executed_commands[Len(executed_commands)]

\* the record build_interaction is to return for the commands run so far
ExpectedRecord(text) ==
    IF executed_commands = <<>> THEN interaction = <<>>
    ELSE /\ Len(interaction) = 1
         /\ interaction[1].user_query = Query
         /\ interaction[1].commands = executed_commands
         /\ interaction[1].response_summary = text
         /\ interaction[1].success =
                (\A i \in 1..Len(executed_commands) : executed_commands[i].success)

\* C1 as stated: a dangerous code block runs only after a prompt for it was shown
\* and answered empty, y, yes, a or all
C1_Original ==
    (last.kind = "code" /\ last.ran /\ is_dangerous(last.command))
        => (last.prompted /\ ~last.eof
            /\ last.answer \in {<<>>, S_y, S_yes, S_a, S_all})

\* C1 amended: in every confirmation mode and whatever the auto-run flag, a
\* dangerous code block runs only after a prompt for it was shown and answered
\* empty, y, yes, a, all or yes all; it is never run unprompted
C1_DangerousBlockConfirmed ==
    (last.kind = "code" /\ last.ran /\ is_dangerous(last.command))
        => (last.prompted /\ ~last.eof
            /\ last.answer \in {<<>>, S_y, S_yes, S_a, S_all, S_yes_all})

\* a dangerous block was run in mode never with auto-run already set
C1_Witness ==
    /\ last.kind = "code" /\ last.ran /\ is_dangerous(last.command)
    /\ confirm_mode = "never" /\ last.auto_before /\ last.prompted

\* C2 as stated: on every path by which a shell command is run (a code block or a
\* shell_exec tool call), a dangerous command runs only after a prompt for it was
\* shown and answered affirmatively
C2_DangerousCommandConfirmed ==
    (last.ran /\ (last.kind = "code" \/ last.tool = N_shell_exec)
        /\ is_dangerous(last.command))
        => (last.prompted /\ ~last.eof /\ Proceeds(last.answer))

\* C4 as stated: a tool call that requires_confirm is prompted for in every mode and
\* whatever the auto-run flag; one that does not is prompted for exactly when a
\* non-dangerous code block would be
C4_ToolsConfirmedLikeBlocks ==
    last.kind = "tool"
        => (last.prompted <=>
                ShouldPromptCode(last.auto_before, confirm_mode,
                                 Registry[last.tool].requires_confirm))

\* C5 as stated: no code block of a response that has tool calls is run
C5_Original ==
    (last.kind = "code" /\ last.ran) => ~last.had_tools

\* C5 amended: with a tool registry in use, a response that has tool calls is
\* processed on the tool-call path, and none of its code blocks is reached, prompted
\* for or run; without a registry its tool calls are ignored
C5_ToolCallsFirst ==
    /\ (registry_on /\ parsed.tool_calls # <<>>) => pc # "code"
    /\ (registry_on /\ last.kind = "code") => ~last.had_tools
    /\ (~registry_on) => (pc # "tools" /\ last.kind # "tool")

\* a tool call of a response that also has a code block was run
C5_Witness ==
    /\ registry_on /\ last.kind = "tool" /\ last.ran /\ last.tool = N_file_read
    /\ executed_commands # <<>>

\* the steps an item of the inner loop still has before it: it is met, prompted
\* for, run, and its result is fed back
Stage ==
    CASE pc \in {"code", "tools"}             -> 3
      [] pc \in {"code_prompt", "tool_prompt"} -> 2
      [] pc \in {"code_run", "tool_run"}       -> 1
      [] OTHER                                 -> 0

\* a measure of the work left: it falls with every step of the loop, so a run has
\* no more steps than its first value (inner loops are shorter than 16 items)
Rank ==
    CASE pc \in {"done", "raised"} -> 0
      [] pc = "top"  -> (9 - iteration) * 64
      [] OTHER       -> (9 - iteration) * 64 + (16 - idx) * 4 + Stage

\* C3: one run of the loop begins at most MAX_STEPS (8) iterations and then ends,
\* by a return or by an exception: every step brings the end nearer and the loop is
\* never stuck before it; when the 8 iterations are used up without a return, the
\* next step is the max-steps notice, returning the partial record of the commands
\* run so far
C3_BoundedByMaxSteps ==
    /\ [](iteration <= 8 /\ idx < 16 /\ Rank >= 0)
    /\ [](pc \in {"done", "raised"} \/ ENABLED Next)
    /\ [][Rank' < Rank]_vars
    /\ [][(pc = "top" /\ iteration = 8) => (pc' = "done" /\ outcome' = "max_steps")]_vars
    /\ [](outcome = "max_steps"
            => (pc = "done" /\ iteration = 8 /\ ExpectedRecord(<<>>)))

\* the loop ran out of iterations after a command was run
C3_Witness ==
    outcome = "max_steps" /\ executed_commands # <<>> /\ interaction # <<>>

\* the error text has been put before the user: printed as the error of the abort,
\* or rendered as the final summary
ErrorShown ==
    outcome = "error" \/ (outcome = "final" /\ Contains(summary, S_unreachable))

\* C6 as stated: once a feed-back request has hit a connection failure, no further
\* command or tool call is run and no further request is sent in that cycle, and
\* the loop returns with the error shown and the record of the commands run so far
C6_AbortsOnFeedbackError ==
    /\ [][fb_failed => (executed_commands' = executed_commands
                        /\ requests' = requests)]_vars
    /\ []((fb_failed /\ pc = "done")
            => (ErrorShown
                /\ (executed_commands # <<>>
                      => (Len(interaction) = 1
                          /\ interaction[1].commands = executed_commands))))

\* C7 as stated: a step whose command exits non-zero (from a code block or through
\* a tool) or whose handler raises is fed back, is recorded with success = false,
\* makes the interaction a failure, and does not end the loop
C7_FailureRecorded ==
    (last.ran /\ last.failed)
        => /\ ~LastEntry.success
           /\ requests = Len(executed_commands)
           /\ fed.kind # "none"
           /\ outcome # "error"
           /\ (pc = "done" => (Len(interaction) = 1 /\ ~interaction[1].success))

\* the reasoning texts of a response that has only reasoning, in document order
JoinedReasoning(response) ==
    Join(Text("\n"), [i \in 1..Len(response.segments) |-> response.segments[i].text])

\* C8: a response with no code block and no tool call ends the loop in the iteration
\* that processes it: nothing is run, no request is sent, and the return is the
\* successful one, with the reasoning texts joined in document order as the final
\* summary that goes into the interaction record
C8_PureReasoningEnds ==
    [][(pc \in {"tools", "code"} /\ ~Actionable(parsed))
        => /\ pc = "code"
           /\ UNCHANGED <<parsed, iteration, executed_commands, requests, fed>>
           /\ pc' \in {"code", "done"}
           /\ (pc' = "done"
                 => /\ outcome' = "final"
                    /\ summary' = JoinedReasoning(parsed)
                    /\ IF executed_commands = <<>> THEN interaction' = <<>>
                       ELSE /\ interaction'[1].commands = executed_commands
                            /\ interaction'[1].response_summary
                                  = Prefix(JoinedReasoning(parsed), 500))]_vars

\* the loop ended on a response of two reasoning texts after a command was run
C8_Witness ==
    /\ outcome = "final" /\ ~Actionable(parsed) /\ Len(parsed.segments) = 2
    /\ executed_commands # <<>> /\ interaction # <<>>

\* C9 as stated: in mode smart a code block is prompted for when it is dangerous or
\* auto-run has not been granted, and runs unprompted only when it is not dangerous
\* and auto-run has been granted
C9_Original ==
    (confirm_mode = "smart" /\ last.kind = "code")
        => (last.prompted <=> (is_dangerous(last.command) \/ ~last.auto_before))

\* C9 amended: in mode smart a code block is prompted for exactly when its command
\* is dangerous; a non-dangerous block runs unprompted whether or not auto-run has
\* been granted
C9_SmartPromptsDangerous ==
    (confirm_mode = "smart" /\ last.kind = "code")
        => /\ last.prompted <=> is_dangerous(last.command)
           /\ ~is_dangerous(last.command) => last.ran

\* in mode smart a non-dangerous block ran unprompted without auto-run
C9_Witness ==
    /\ confirm_mode = "smart" /\ last.kind = "code" /\ last.ran
    /\ ~is_dangerous(last.command) /\ ~last.auto_before /\ ~last.prompted

\* C10 as stated: for a non-dangerous code block, in mode always a prompt is shown
\* exactly when the auto-run flag has not been set by an earlier answer of all or a;
\* in mode never no prompt is shown and the block runs
C10_Original ==
    (last.kind = "code" /\ ~is_dangerous(last.command))
        => /\ confirm_mode = "always"
                => (last.prompted <=> last.set_by_before \notin {S_a, S_all})
           /\ confirm_mode = "never" => (~last.prompted /\ last.ran)

\* C10 amended: for a non-dangerous code block, in mode always a prompt is shown
\* exactly when the auto-run flag has not been set by an earlier answer of all, a or
\* yes all; in mode never no prompt is shown and the block runs
C10_NonDangerousPrompt ==
    (last.kind = "code" /\ ~is_dangerous(last.command))
        => /\ last.auto_before <=> last.set_by_before \in {S_a, S_all, S_yes_all}
           /\ confirm_mode = "always" => (last.prompted <=> ~last.auto_before)
           /\ confirm_mode = "never" => (~last.prompted /\ last.ran)

\* in mode always a non-dangerous block ran unprompted after the answer yes all
\* had set auto-run
C10_Witness ==
    /\ confirm_mode = "always" /\ last.kind = "code" /\ last.ran
    /\ ~is_dangerous(last.command) /\ last.auto_before /\ ~last.prompted
    /\ last.set_by_before = S_yes_all

\* a step that ends the handling of a code block or a known tool call: it is
\* declined at its prompt, or it has been run; last' describes it
ItemStep == pending # NoStep /\ pending' = NoStep

\* a step in which the confirmation prompt returns
AnswerStep == pc \in {"code_prompt", "tool_prompt"} /\ pc' # pc

\* the block or tool call the prompt was shown for, after the step
Prompted == IF pending' = NoStep THEN last' ELSE pending'

\* a step in which the prompt for a block or tool call returns with an interrupt or
\* an answer outside the given ones
Declined(answers) ==
    /\ AnswerStep
    /\ Prompted.eof \/ Prompted.answer \notin answers

\* the step skips only the current block: nothing is run, recorded or sent, the
\* auto-run flag stays as it was and the inner loop moves on to the next item
SkipsOnlyThisBlock ==
    /\ ItemStep
    /\ ~last'.ran
    /\ UNCHANGED <<executed_commands, requests, fed, auto_run, set_by, parsed,
                   iteration, interaction, outcome, history>>
    /\ pc' = (IF pc = "code_prompt" THEN "code" ELSE "tools")
    /\ idx' = idx + 1

\* C12 as stated: an answer other than empty, y, yes, a, all, or an interrupt at the
\* prompt, skips only the current block and the loop goes on with the next one
C12_Original ==
    [][Declined({<<>>, S_y, S_yes, S_a, S_all}) => SkipsOnlyThisBlock]_vars

\* C12 amended: an answer other than empty, y, yes, a, all, yes all, or an interrupt
\* (EOF or Ctrl-C) at the prompt, skips only the current block: it is not run, no
\* entry is added to the executed commands, no feed-back request is sent, the
\* auto-run flag is unchanged and the loop goes on with the next block
C12_SkipOnlyCurrent ==
    [][Declined({<<>>, S_y, S_yes, S_a, S_all, S_yes_all}) => SkipsOnlyThisBlock]_vars

\* a block was declined with the answer n after a command had been run, and the
\* loop is at the next item
C12_Witness ==
    /\ last.prompted /\ ~last.ran /\ last.answer = Text("n")
    /\ executed_commands # <<>> /\ pc \in {"code", "tools"} /\ idx > 1

\* C13: a tool call whose name is not in the registry is skipped without aborting:
\* the step runs no handler, shows no prompt, records nothing, sends no request, and
\* moves on to the next tool call of the response
C13_UnknownToolSkipped ==
    [][(pc = "tools" /\ idx <= Len(parsed.tool_calls)
          /\ parsed.tool_calls[idx].name \notin DOMAIN Registry)
        => /\ UNCHANGED <<executed_commands, requests, fed, last, auto_run, parsed,
                          iteration, interaction, outcome, pc>>
           /\ idx' = idx + 1]_vars

\* the tool call after an unknown one is the next to be processed
C13_Witness ==
    /\ pc = "tools" /\ idx = 2 /\ Len(parsed.tool_calls) = 2
    /\ parsed.tool_calls[1].name \notin DOMAIN Registry
    /\ parsed.tool_calls[2].name \in DOMAIN Registry

\* C14: build_interaction returns no record for an empty list of commands; else a
\* record with the commands in the order given, success the conjunction of the
\* per-step successes, and the summary cut to at most 500 characters; one command
\* that exited non-zero gives success = false and exactly one entry
C14_BuildInteraction ==
    io.fn = "build_interaction" =>
        LET cmds == io.commands
            r    == io.result
        IN  /\ cmds = <<>> => r = <<>>
            /\ cmds # <<>> =>
                  /\ Len(r) = 1
                  /\ r[1].user_query = io.query
                  /\ r[1].commands = cmds
                  /\ r[1].success =
                        (\A i \in 1..Len(cmds) :
                            "success" \in DOMAIN cmds[i] /\ cmds[i].success)
                  /\ Len(r[1].response_summary) =
                        (IF Len(io.summary) <= 500 THEN Len(io.summary) ELSE 500)
                  /\ \A i \in 1..Len(r[1].response_summary) :
                        r[1].response_summary[i] = io.summary[i]
            /\ (Len(cmds) = 1 /\ cmds[1] = CodeRecord(Ls, Result(Ls, 1, <<>>, Text("no"))))
                  => (Len(r) = 1 /\ ~r[1].success /\ Len(r[1].commands) = 1)

\* a record was built from a failed command after a successful one, with a summary
\* that was cut
C14_Witness ==
    /\ io.fn = "build_interaction"
    /\ io.commands = <<CodeRecord(Ls, Result(Ls, 0, Text("ok"), <<>>)),
                       CodeRecord(Ls, Result(Ls, 1, <<>>, Text("no")))>>
    /\ Len(io.summary) > 500 /\ Len(io.result[1].response_summary) = 500
    /\ ~io.result[1].success

\* an opening ``` with an optional language tag and a newline, at i
OpensFence(text, i) ==
    /\ FenceAt(text, i)
    /\ \E k \in (i + 3)..Len(text) :
          /\ text[k] = Newline
          /\ \A l \in (i + 3)..(k - 1) : IsWord(text[l])

\* an opening ``` at i, its newline at k and a terminating ``` at j
ClosedFence(text, i, k, j) ==
    /\ FenceAt(text, i) /\ FenceAt(text, j)
    /\ i + 3 <= k /\ k < j
    /\ text[k] = Newline
    /\ \A l \in (i + 3)..(k - 1) : IsWord(text[l])

\* the closed fences of a text
ClosedFences(text) ==
    {f \in (1..Len(text)) \X (1..Len(text)) \X (1..Len(text)) :
        ClosedFence(text, f[1], f[2], f[3])}

\* C20: an unclosed fence never produces a CodeBlock: every command parse_response
\* returns is the trimmed body of a fence that has a terminator, and when the input
\* contains no closed fence the result is one reasoning segment holding the whole
\* trimmed input
C20_UnclosedFenceIsReasoning ==
    io.fn = "parse_response" =>
        LET text == io.text
            segs == io.result.segments
            cf   == ClosedFences(text)
        IN  /\ \A n \in 1..Len(segs) :
                  segs[n].block # <<>> =>
                      \E f \in cf :
                          segs[n].block[1].command = Strip(SubSeq(text, f[2] + 1, f[3] - 1))
            /\ cf = {} => segs = <<Reasoning(Strip(text))>>

\* a text with an opening fence, a command after it and no terminator was parsed
C20_Witness ==
    /\ io.fn = "parse_response"
    /\ io.text = Text(" ") \o Fence \o Text("a\na ")
    /\ OpensFence(io.text, 2)
    /\ io.result.segments = <<Reasoning(Fence \o Text("a\na"))>>

RequestCalls == {"chat", "feed_result", "stream_chat", "stream_feed_result"}

\* C16: a transport failure of a chat or feed-back request, streaming or not, is
\* never raised to the caller, who gets a ParsedResponse with a non-empty error; and
\* a ParsedResponse with a non-empty error comes only from such a failure
C16_FailureBecomesSentinel ==
    io.fn \in RequestCalls =>
        /\ io.failure # <<>> =>
              /\ ~io.raised
              /\ io.result # <<>>
              /\ io.result[1].error # <<>>
        /\ (io.result # <<>> /\ io.result[1].error # <<>>) => io.failure # <<>>

\* the step is the return of a chat, feed-back or streaming call
IsRequestCall == io'.fn \in RequestCalls

\* the step is the first of a call: the user turn is appended, the request is sent
IsSend == io'.fn = "send"

\* the feed-back turn is a user-role turn carrying the command and its output
FeedTurnCarriesResult ==
    (IsSend /\ io'.call \in {"feed_result", "stream_feed_result"}) =>
        /\ Len(history') > Len(history)
        /\ history'[Len(history) + 1].role = "user"
        /\ Contains(history'[Len(history) + 1].content, Ls)
        /\ Contains(history'[Len(history) + 1].content, T_hi)

\* C19 as stated: every call appends the user-role message and then the assistant
\* reply to the unchanged previous history, and nothing else changes the history
C19_Original ==
    [][/\ IsRequestCall =>
            \E reply \in {T_done, FencedLs, Flatten(<<T_hi, Text("\n") \o Fence>>)} :
                history' = io'.before \o <<[role |-> "user", content |-> io'.user],
                                            [role |-> "assistant", content |-> reply]>>
       /\ FeedTurnCarriesResult
       /\ io'.fn \in {"reset", "web", "load"} => history' = history]_vars

\* the request of the call that returns in this step succeeded with a reply: on
\* the streaming path a non-empty text
Replied ==
    /\ io'.failure = <<>>
    /\ io'.received # <<>>
    /\ io'.streaming => io'.received[1] # <<>>

\* the step appends nothing or one turn to the history, which stays as a prefix
KeepsPrefix ==
    /\ Len(history') \in {Len(history), Len(history) + 1}
    /\ SubSeq(history', 1, Len(history)) = history

\* C19: the history is ordered and append-only but for reset and load: every call
\* keeps the history it finds as a prefix and appends the user-role message before
\* it awaits the backend and then, when the request succeeded with a reply, the
\* assistant turn with that reply; the feed-back turn is a user-role turn carrying
\* the command and its output; of the other operations, reset empties the history,
\* load replaces it with the saved conversation or leaves it, and a web page
\* injection appends one user-role turn or nothing
C19_AppendOnlyButResetAndLoad ==
    [][/\ IsSend => history' = Append(history, [role |-> "user", content |-> chat'.user])
       /\ io'.fn \in {"open", "chunk"} => history' = history
       /\ IsRequestCall =>
            /\ chat.at # "none"
            /\ KeepsPrefix
            /\ Replied => history' = Append(history, [role |-> "assistant",
                                                      content |-> io'.received[1]])
       /\ FeedTurnCarriesResult
       /\ io'.fn = "reset" => history' = <<>>
       /\ io'.fn = "load" =>
            history' = (IF io'.outcome = "loaded" THEN SavedMessages ELSE history)
       /\ io'.fn = "web" =>
            /\ KeepsPrefix
            /\ io'.outcome = "page" =>
                  /\ Len(history') = Len(history) + 1
                  /\ history'[Len(history')].role = "user"]_vars

\* a chat with its reply followed by a streamed feed-back with its reply
C19_Witness ==
    /\ io.fn = "stream_feed_result" /\ io.failure = <<>>
    /\ Len(history) = 4
    /\ history[1] = [role |-> "user", content |-> Query]
    /\ history[2] = [role |-> "assistant", content |-> FencedLs]
    /\ history[3] = [role |-> "user", content |-> OutputMsg(Ls, T_hi)]
    /\ history[4] = [role |-> "assistant", content |-> T_done]

\* a step in which a confirmation prompt is answered all or a
AnswersAll == AnswerStep /\ ~Prompted.eof /\ Prompted.answer \in {S_a, S_all}

\* the step hands the block or tool call to the shell or to its handler
Executes == pc' \in {"code_run", "tool_run"} /\ pending' # NoStep

\* a step that shows a confirmation prompt for a step that is not dangerous
PromptsNonDangerous ==
    /\ pc \in {"code", "tools"}
    /\ pc' \in {"code_prompt", "tool_prompt"}
    /\ ~is_dangerous(pending'.command)

InCycle == pc # "idle"

\* C11: after an answer of all or a the block is executed and auto-run stays set for
\* the rest of the session: it is never cleared, and no later non-dangerous step of
\* this or a later cycle is prompted for
C11_AutoRunForTheSession ==
    /\ [][AnswersAll => (Executes /\ auto_run')]_vars
    /\ []((InCycle /\ (granted \/ set_by \in {S_a, S_all})) => auto_run)
    /\ [][PromptsNonDangerous =>
            (~granted /\ pending'.set_by_before \notin {S_a, S_all})]_vars

\* C15: the interaction sink receives exactly one record for a completed cycle that
\* executed at least one command or tool call, whatever is entered at the rating
\* prompt, and none for a cycle that executed nothing
C15_OneRecordPerCycle ==
    /\ pc = "done" => ((interaction # <<>>) <=> (executed_commands # <<>>))
    /\ InCycle => sink = 0
    /\ pc = "idle" => sink = (IF interaction # <<>> THEN 1 ELSE 0)

\* C17: when the first request for a message fails in transport, the top level
\* retries exactly once; after a second failure the executor is not run and the
\* input prompt returns; after a successful retry the cycle runs
C17_RetriesOnce ==
    (chat.at = "cycle" /\ phase \in {"input", "cycle"}) =>
        /\ chat.failures >= 1 => chat.attempts = 2
        /\ chat.failures = 2 => (phase = "input" /\ pc # "entry")
        /\ chat.failures <= 1 => (phase = "cycle" /\ pc = "entry")

\* the step sends a feed-back request of the executor
SendsRequest == requests' > requests

\* the executor's request follows the completed action it reports: one request, for
\* the command or tool call that this step ran
FollowsAction ==
    /\ requests' = requests + 1
    /\ ItemStep
    /\ last'.ran
    /\ Len(executed_commands') = Len(executed_commands) + 1
    /\ IF last'.kind = "tool" THEN fed'.kind = "tool" /\ fed'.name = last'.tool
       ELSE fed'.kind = "command" /\ fed'.name = last'.command

\* C18 as stated: the executor's requests are sent one at a time, each after the
\* action before it completed, and no logging or submission request is outstanding
\* when a request of a cycle is sent
C18_Original ==
    [][SendsRequest => (FollowsAction /\ ~bg)]_vars

\* C18: the executor's requests are sent one at a time, each after the action
\* before it completed; the logging and submission requests are started only once a
\* cycle has returned, never while it runs
C18_ExecutorSerialized ==
    [][/\ SendsRequest => FollowsAction
       /\ (bg' /\ ~bg) => (pc = "done" \/ phase = "rating")]_vars

\* a feed-back request was sent while a task of the cycle before was outstanding
C18_Witness ==
    /\ phase \in {"cycle", "nested"} /\ bg
    /\ requests = 1 /\ last.ran /\ fed.kind = "command"

\* C21: parse_response returns at least one segment for every text, and for the
\* empty text exactly one segment with empty text and no block
C21_AtLeastOneSegment ==
    io.fn = "parse_response" =>
        /\ Len(io.result.segments) >= 1
        /\ io.text = <<>> => io.result.segments = <<[text |-> <<>>, block |-> <<>>]>>

\* the empty text was parsed
C21_Witness ==
    /\ io.fn = "parse_response" /\ io.text = <<>>
    /\ Len(io.result.segments) = 1

\* the least position q >= p at which piece occurs in text, 0 if there is none
FindFrom(text, piece, p) ==
    LET at == {q \in p..(Len(text) - Len(piece) + 1) :
                  SubSeq(text, q, q + Len(piece) - 1) = piece}
    IN  IF at = {} THEN 0 ELSE CHOOSE q \in at : \A r \in at : q <= r

\* what a segment carries: its text, or the command of its block
Carried(seg) == IF seg.block # <<>> THEN seg.block[1].command ELSE seg.text

\* the segments from the n-th on occur in the text one after the other from p on
RECURSIVE InDocumentOrder(_, _, _, _)
InDocumentOrder(text, segs, n, p) ==
    IF n > Len(segs) THEN TRUE
    ELSE LET q == FindFrom(text, Carried(segs[n]), p)
         IN  q # 0 /\ InDocumentOrder(text, segs, n + 1, q + Len(Carried(segs[n])))

\* a segment has a non-empty trimmed text and no block, or a block and no text
OneOfTextOrBlock(seg) ==
    \/ seg.block = <<>> /\ seg.text # <<>> /\ seg.text = Strip(seg.text)
    \/ seg.block # <<>> /\ seg.text = <<>>

\* every block has a non-empty trimmed command that is the body of a closed fence,
\* with the tag of that fence as language, or bash when the tag is empty
BlocksWellFormed(text, segs) ==
    \A n \in 1..Len(segs) :
        segs[n].block # <<>> =>
            LET b == segs[n].block[1]
            IN  /\ b.command # <<>>
                /\ b.command = Strip(b.command)
                /\ \E f \in ClosedFences(text) :
                      /\ b.command = Strip(SubSeq(text, f[2] + 1, f[3] - 1))
                      /\ b.lang = (IF f[2] > f[1] + 3 THEN SubSeq(text, f[1] + 3, f[2] - 1)
                                   ELSE S_bash)

\* C22 as stated: but for the one empty segment of the empty input, every segment
\* carries exactly one of a non-empty trimmed text or a block; blocks have a non-empty
\* trimmed command and the tag, or bash, as language; segments are in document order
C22_Original ==
    io.fn = "parse_response" =>
        LET text == io.text
            segs == io.result.segments
        IN  /\ text # <<>> => \A n \in 1..Len(segs) : OneOfTextOrBlock(segs[n])
            /\ BlocksWellFormed(text, segs)
            /\ InDocumentOrder(text, segs, 1, 1)

\* C22: the same, the excepted segment being the one empty segment returned for an
\* input that is empty or holds only whitespace
C22_SegmentsWellFormed ==
    io.fn = "parse_response" =>
        LET text == io.text
            segs == io.result.segments
        IN  /\ Strip(text) # <<>> => \A n \in 1..Len(segs) : OneOfTextOrBlock(segs[n])
            /\ Strip(text) = <<>> => segs = <<[text |-> <<>>, block |-> <<>>]>>
            /\ BlocksWellFormed(text, segs)
            /\ InDocumentOrder(text, segs, 1, 1)

\* a fence with a tag and a command, followed by text: a block with the tag as
\* language, then a reasoning segment
C22_Witness ==
    /\ io.fn = "parse_response"
    /\ io.text = Fence \o Text("a\na") \o Fence \o Text("a")
    /\ io.result.segments = <<CodeSegment(Text("a"), Text("a")), Reasoning(Text("a"))>>

\* ---------------------------------------------------------------------------
\* parse_tool_calls (tools.py). A decoded JSON value is a record [kind, c, e, m]:
\* null, true and false; an int with its decimal digits in c; a float with its
\* literal in c (NaN, Infinity, -Infinity among them); a str with its characters
\* in c; a list with its elements in e; a map with its members [key, val] in m,
\* each key once, in the order of insertion
\* ---------------------------------------------------------------------------
JValue(kind, c, e, m) == [kind |-> kind, c |-> c, e |-> e, m |-> m]
JNull     == JValue("null", <<>>, <<>>, <<>>)
JTrue     == JValue("true", <<>>, <<>>, <<>>)
JFalse    == JValue("false", <<>>, <<>>, <<>>)
JInt(c)   == JValue("int", c, <<>>, <<>>)
JFloat(c) == JValue("float", c, <<>>, <<>>)
JStr(c)   == JValue("str", c, <<>>, <<>>)
JList(e)  == JValue("list", <<>>, e, <<>>)
JMap(m)   == JValue("map", <<>>, <<>>, m)

\* the characters and the literals of JSON
C_quote     == Ord("\"")
C_backslash == Ord("\\")
C_slash     == Ord("/")
C_lbrace    == Ord("{")
C_rbrace    == Ord("}")
C_lbracket  == Ord("[")
C_rbracket  == Ord("]")
C_colon     == Ord(":")
C_comma     == Ord(",")
C_minus     == Ord("-")
C_plus      == Ord("+")
C_dot       == Ord(".")
C_zero      == Ord("0")
C_e         == Ord("e")
C_E         == Ord("E")
C_u         == Ord("u")
C_b         == Ord("b")
C_f         == Ord("f")
C_n         == Ord("n")
C_r         == Ord("r")
C_t         == Ord("t")
L_null        == Text("null")
L_true        == Text("true")
L_false       == Text("false")
L_NaN         == Text("NaN")
L_Infinity    == Text("Infinity")
L_NegInfinity == Text("-Infinity")
L_NegZero     == Text("-0")
L_Zero        == Text("0")
Digits        == 48..57

\* the literal lit stands at position i of the text s
LiteralAt(s, i, lit) == i + Len(lit) - 1 <= Len(s) /\ SubSeq(s, i, i + Len(lit) - 1) = lit

\* the first position from i on whose character is not in chars, Len(s) + 1 if
\* there is none
SpanEnd(s, i, chars) ==
    CHOOSE k \in i..(Len(s) + 1) :
        /\ k > Len(s) \/ s[k] \notin chars
        /\ \A j \in i..(k - 1) : s[j] \in chars

\* json.decoder.WHITESPACE and the scanner's IS_WHITESPACE: space, \t, \n, \r
JsonWhitespace == {32, 9, 10, 13}
SkipWs(s, i) == SpanEnd(s, i, JsonWhitespace)

\* the result of scanning a value: [err, val, next]; err is "none" or the
\* exception raised, next the position after the value
Scanned(val, next) == [err |-> "none", val |-> val, next |-> next]
ScanError(exc)     == [err |-> exc, val |-> JNull, next |-> 0]

\* sys.getrecursionlimit(): the recursion depth at which RecursionError is
\* raised. A depth counts the Python frames in use, the frame of the module
\* among them, and the calls in progress of C functions that enter a recursive
\* call: a call of the scanner object, of a method of a built-in type or of a
\* class, and each object or array the scanner is inside of
RecursionLimit == 1000

\* raise JSONDecodeError(...) at depth d, by raise_errmsg of the scanner or by
\* the raise statements of json.decoder and json: the call of the class, the
\* frame of JSONDecodeError.__init__ and the call of a str method in it take
\* three levels more
RaiseDecodeError(d) ==
    IF d + 3 > RecursionLimit THEN ScanError("RecursionError")
    ELSE ScanError("JSONDecodeError")
\* raise_stop_iteration of the scanner: no value starts at the position
NoTerm == ScanError("StopIteration")

\* the value of the four hexadecimal digits at position p, -1 if they are not
HexDigit(c) ==
    CASE c \in 48..57  -> c - 48
      [] c \in 97..102 -> c - 87
      [] c \in 65..70  -> c - 55
      [] OTHER -> -1
Hex4(s, p) ==
    IF \E n \in 0..3 : HexDigit(s[p + n]) < 0 THEN -1
    ELSE 4096 * HexDigit(s[p]) + 256 * HexDigit(s[p + 1])
         + 16 * HexDigit(s[p + 2]) + HexDigit(s[p + 3])

\* the character of a backslash escape other than \u, -1 if there is none
Escaped(c) ==
    CASE c \in {C_quote, C_backslash, C_slash} -> c
      [] c = C_b -> 8
      [] c = C_f -> 12
      [] c = C_n -> 10
      [] c = C_r -> 13
      [] c = C_t -> 9
      [] OTHER -> -1

HighSurrogates == 55296..56319
LowSurrogates  == 56320..57343

\* the \u escape whose backslash is at position k, as [err, val, next] with the
\* character in val: a high surrogate c is joined with a low surrogate c2 that
\* is escaped right after it; d is the depth
JoinedWith(k, c, c2, d) ==
    IF c2 < 0 THEN RaiseDecodeError(d)
    ELSE IF c2 \in LowSurrogates
    THEN Scanned(65536 + 1024 * (c - 55296) + (c2 - 56320), k + 12)
    ELSE Scanned(c, k + 6)
SurrogatePair(s, k, c, d) ==
    IF c < 0 THEN RaiseDecodeError(d)
    ELSE IF c \in HighSurrogates /\ k + 11 < Len(s)
            /\ s[k + 6] = C_backslash /\ s[k + 7] = C_u
    THEN JoinedWith(k, c, Hex4(s, k + 8), d)
    ELSE Scanned(c, k + 6)
UnicodeEscape(s, k, d) ==
    IF k + 5 >= Len(s) THEN RaiseDecodeError(d)
    ELSE SurrogatePair(s, k, Hex4(s, k + 2), d)
\* the other escapes
SimpleEscape(s, k, d) ==
    IF Escaped(s[k + 1]) < 0 THEN RaiseDecodeError(d)
    ELSE Scanned(Escaped(s[k + 1]), k + 2)

\* the first position from i on that holds a quote, a backslash or a control
\* character, Len(s) + 1 if there is none
ChunkEnd(s, i) ==
    CHOOSE k \in i..(Len(s) + 1) :
        /\ k > Len(s) \/ s[k] \in {C_quote, C_backslash} \/ s[k] <= 31
        /\ \A j \in i..(k - 1) : s[j] \notin {C_quote, C_backslash} /\ s[j] > 31

\* scanstring (strict) from position i, after the opening quote, acc being the
\* characters decoded so far: the chunk up to position k, then the closing
\* quote or an escape; d is the depth at which scanstring runs
RECURSIVE ScanString(_, _, _, _)
AfterEscape(s, acc, esc, d) ==
    IF esc.err # "none" THEN ScanError(esc.err)
    ELSE ScanString(s, esc.next, Append(acc, esc.val), d)
ScanChunk(s, i, acc, k, d) ==
    IF k > Len(s) THEN RaiseDecodeError(d)
    ELSE IF s[k] = C_quote THEN Scanned(acc \o SubSeq(s, i, k - 1), k + 1)
    ELSE IF s[k] # C_backslash \/ k = Len(s) THEN RaiseDecodeError(d)
    ELSE AfterEscape(s, acc \o SubSeq(s, i, k - 1),
                     IF s[k + 1] = C_u THEN UnicodeEscape(s, k, d)
                     ELSE SimpleEscape(s, k, d), d)
ScanString(s, i, acc, d) == ScanChunk(s, i, acc, ChunkEnd(s, i), d)

\* _match_number: -?(0|[1-9][0-9]*)(\.[0-9]+)?([eE][-+]?[0-9]+)? at position i.
\* The ends of the integer part that starts at d (0 if there is none), of the
\* fraction after n and of the exponent after f, which is dropped when it has
\* no digit; where no number stands the scanner raises StopIteration
IntEnd(s, d) ==
    IF d > Len(s) THEN 0
    ELSE IF s[d] = C_zero THEN d + 1
    ELSE IF s[d] \in 49..57 THEN SpanEnd(s, d + 1, Digits)
    ELSE 0
FractionEnd(s, n) ==
    IF n < Len(s) /\ s[n] = C_dot /\ s[n + 1] \in Digits
    THEN SpanEnd(s, n + 2, Digits) ELSE n
ExponentDigits(s, f) ==
    IF f + 1 < Len(s) /\ s[f + 1] \in {C_plus, C_minus} THEN f + 2 ELSE f + 1
Backtrack(f, g, h) == IF h > g THEN h ELSE f
ExponentEnd(s, f) ==
    IF f < Len(s) /\ s[f] \in {C_e, C_E}
    THEN Backtrack(f, ExponentDigits(s, f), SpanEnd(s, ExponentDigits(s, f), Digits))
    ELSE f
\* the int of a literal: -0 is 0
IntOf(lit) == IF lit = L_NegZero THEN L_Zero ELSE lit
\* the number from i to x, its integer part from d to n: a float when it has a
\* fraction or an exponent; int() of more than 4300 digits
\* (sys.int_info.default_max_str_digits) raises ValueError
NumberValue(s, i, d, n, x) ==
    IF x > n THEN Scanned(JFloat(SubSeq(s, i, x - 1)), x)
    ELSE IF n - d > 4300 THEN ScanError("ValueError")
    ELSE Scanned(JInt(IntOf(SubSeq(s, i, n - 1))), n)
NumberFrom(s, i, d, n) ==
    IF n = 0 THEN NoTerm
    ELSE NumberValue(s, i, d, n, ExponentEnd(s, FractionEnd(s, n)))
SignEnd(s, i) == IF s[i] = C_minus THEN i + 1 ELSE i
JsonNumber(s, i) == NumberFrom(s, i, SignEnd(s, i), IntEnd(s, SignEnd(s, i)))

\* dict[key] = val
SetItem(m, key, val) ==
    IF \E n \in 1..Len(m) : m[n].key = key
    THEN [n \in 1..Len(m) |-> IF m[n].key = key THEN [key |-> key, val |-> val] ELSE m[n]]
    ELSE Append(m, [key |-> key, val |-> val])

RECURSIVE JsonValue(_, _, _)
RECURSIVE JsonMembers(_, _, _, _)
RECURSIVE JsonItems(_, _, _, _)
\* _parse_object at depth d: after the value v of a member, a closing brace at
\* position e or a comma and the next member
MemberEnd(s, m, e, d) ==
    IF e > Len(s) THEN RaiseDecodeError(d)
    ELSE IF s[e] = C_rbrace THEN Scanned(JMap(m), e + 1)
    ELSE IF s[e] # C_comma THEN RaiseDecodeError(d)
    ELSE JsonMembers(s, SkipWs(s, e + 1), m, d)
MemberValue(s, m, key, v, d) ==
    IF v.err # "none" THEN v
    ELSE MemberEnd(s, SetItem(m, key, v.val), SkipWs(s, v.next), d)
MemberColon(s, m, key, colon, d) ==
    IF colon > Len(s) \/ s[colon] # C_colon THEN RaiseDecodeError(d)
    ELSE MemberValue(s, m, key, JsonValue(s, SkipWs(s, colon + 1), d), d)
MemberKey(s, m, key, d) ==
    IF key.err # "none" THEN ScanError(key.err)
    ELSE MemberColon(s, m, key.val, SkipWs(s, key.next), d)
\* the members of an object from position i on, where a key is due, after the
\* members m
JsonMembers(s, i, m, d) ==
    IF i > Len(s) \/ s[i] # C_quote THEN RaiseDecodeError(d)
    ELSE MemberKey(s, m, ScanString(s, i + 1, <<>>, d), d)
JsonObject(s, j, d) ==
    IF j <= Len(s) /\ s[j] = C_rbrace THEN Scanned(JMap(<<>>), j + 1)
    ELSE JsonMembers(s, j, <<>>, d)

\* _parse_array at depth d: after the element v, a closing bracket at position
\* t or a comma and the next element
ItemEnd(s, e, t, d) ==
    IF t > Len(s) THEN RaiseDecodeError(d)
    ELSE IF s[t] = C_rbracket THEN Scanned(JList(e), t + 1)
    ELSE IF s[t] # C_comma THEN RaiseDecodeError(d)
    ELSE JsonItems(s, SkipWs(s, t + 1), e, d)
ItemValue(s, e, v, d) ==
    IF v.err # "none" THEN v ELSE ItemEnd(s, Append(e, v.val), SkipWs(s, v.next), d)
\* the elements of an array from position i on, after the elements e
JsonItems(s, i, e, d) == ItemValue(s, e, JsonValue(s, i, d), d)
JsonArray(s, j, d) ==
    IF j <= Len(s) /\ s[j] = C_rbracket THEN Scanned(JList(<<>>), j + 1)
    ELSE JsonItems(s, j, <<>>, d)

StrValue(str) ==
    IF str.err # "none" THEN ScanError(str.err) ELSE Scanned(JStr(str.val), str.next)
\* Py_EnterRecursiveCall at depth d: one level more, RecursionError when that
\* is above the limit
Entered(d) == d + 1 <= RecursionLimit
\* _parse_constant calls parse_constant, a method of the dict of the constants
ConstantValue(lit, next, d) ==
    IF Entered(d) THEN Scanned(JFloat(lit), next) ELSE ScanError("RecursionError")
\* scan_once: the value starting at position i, d being the depth at which the
\* scanner runs; an object or an array is scanned one level deeper
JsonValue(s, i, d) ==
    IF i > Len(s) THEN NoTerm
    ELSE CASE s[i] = C_quote    -> StrValue(ScanString(s, i + 1, <<>>, d))
           [] s[i] = C_lbrace   ->
                IF Entered(d) THEN JsonObject(s, SkipWs(s, i + 1), d + 1)
                ELSE ScanError("RecursionError")
           [] s[i] = C_lbracket ->
                IF Entered(d) THEN JsonArray(s, SkipWs(s, i + 1), d + 1)
                ELSE ScanError("RecursionError")
           [] LiteralAt(s, i, L_null)        -> Scanned(JNull, i + 4)
           [] LiteralAt(s, i, L_true)        -> Scanned(JTrue, i + 4)
           [] LiteralAt(s, i, L_false)       -> Scanned(JFalse, i + 5)
           [] LiteralAt(s, i, L_NaN)         -> ConstantValue(L_NaN, i + 3, d)
           [] LiteralAt(s, i, L_Infinity)    -> ConstantValue(L_Infinity, i + 8, d)
           [] LiteralAt(s, i, L_NegInfinity) -> ConstantValue(L_NegInfinity, i + 9, d)
           [] OTHER -> JsonNumber(s, i)

\* json.loads of a str, called where frames Python frames are in use, the
\* caller's among them: [err, val, next]; one value, JSON whitespace allowed
\* around it, nothing after it; a text that starts with a byte order mark is
\* refused. The frames of loads, decode and raw_decode and the call of the
\* scanner put the scanner at depth frames + 4; StopIteration is turned into
\* JSONDecodeError in raw_decode, and text after the value is refused in decode
OneValue(s, v, frames) ==
    IF v.err = "StopIteration" THEN RaiseDecodeError(frames + 3)
    ELSE IF v.err # "none" THEN v
    ELSE IF SkipWs(s, v.next) <= Len(s) THEN RaiseDecodeError(frames + 2)
    ELSE v
json_loads(s, frames) ==
    IF frames + 4 > RecursionLimit THEN ScanError("RecursionError")
    ELSE IF s # <<>> /\ s[1] = 65279 THEN RaiseDecodeError(frames + 1)
    ELSE OneValue(s, JsonValue(s, SkipWs(s, 1), frames + 4), frames)

\* dict.get: the value of the member with that key, or the default
Get(map, key, default) ==
    IF \E n \in 1..Len(map.m) : map.m[n].key = key
    THEN map.m[CHOOSE n \in 1..Len(map.m) : map.m[n].key = key].val
    ELSE default

\* the decimal digits of 2^-1075, half of the least positive float:
\* 2^-1075 = 0.HalfLeast * 10^-323
HalfLeastDigits ==
    "24703282292062327208828439643411068618252990130716238221279284125033775363510437593264991818081799618989828234772285886546332835517796989819938739800539093906315035659515570226392290858392449105184435931802849936536152500319370457678249219365623669863658480757001585769269903706311928279558551332927834338409351978015531246597263579574622766465272827220056374006485499977096599470454020828166226237857393450736339007967761930577506740176324673600968951340535537458516661134223766678604162159680461914467291840300530057530849048765391711386591646239524912623653881879636239373280423891018672348497668235089863388587925628302755995657524455507255189313690836254779186948667994968324049705821028513185451396213837722826145437693412532098591327667236328125"
HalfLeast == [n \in 1..Len(HalfLeastDigits) |-> 48 + Digit(HalfLeastDigits, n)]

\* the number written with the digits of s from position i on, after acc;
\* the digits are left unread once the number is above 100000
RECURSIVE DecimalOf(_, _, _)
DecimalOf(s, i, acc) ==
    IF i > Len(s) \/ acc > 100000 THEN acc
    ELSE DecimalOf(s, i + 1, 10 * acc + (s[i] - 48))

\* the exponent of a float literal whose mantissa ends before position m
ExponentOf(lit, m) ==
    IF m > Len(lit) THEN 0
    ELSE IF lit[m + 1] = C_minus THEN 0 - DecimalOf(lit, m + 2, 0)
    ELSE IF lit[m + 1] = C_plus THEN DecimalOf(lit, m + 2, 0)
    ELSE DecimalOf(lit, m + 1, 0)

IsDigit(c) == c \in Digits
\* the n-th digit of a digit sequence, zeros after its end
DigitAt(digits, n) == IF n <= Len(digits) THEN digits[n] ELSE C_zero
\* 0.digits is at most 0.HalfLeast
AtMostHalfLeast(digits) ==
    \A n \in 1..(Len(digits) + Len(HalfLeast)) :
        DigitAt(digits, n) > DigitAt(HalfLeast, n) =>
            \E j \in 1..(n - 1) : DigitAt(digits, j) < DigitAt(HalfLeast, j)
\* float() of the number 0.d1d2... * 10^point, d1 being the digit at position
\* first, is 0.0: the number is at most 2^-1075 and is rounded to zero
RoundsToZero(digits, first, point) ==
    IF point # -323 THEN point < -323
    ELSE AtMostHalfLeast(SubSeq(digits, first, Len(digits)))
\* the number with these digits, intLen of them before the point, times
\* 10^exponent, is 0.0 as a float
DecimalIsZero(digits, intLen, exponent) ==
    IF digits = <<>> THEN FALSE
    ELSE IF \A n \in 1..Len(digits) : digits[n] = C_zero THEN TRUE
    ELSE RoundsToZero(digits, SpanEnd(digits, 1, {C_zero}),
                      intLen - (SpanEnd(digits, 1, {C_zero}) - 1) + exponent)
\* float(lit) is 0.0; the mantissa of lit ends before position m
FloatParts(lit, m) ==
    DecimalIsZero(SelectSeq(SubSeq(lit, 1, m - 1), IsDigit),
                  Len(SelectSeq(SubSeq(lit, 1, SpanEnd(lit, 1, Digits \cup {C_minus}) - 1),
                                IsDigit)),
                  ExponentOf(lit, m))
FloatIsZero(lit) == FloatParts(lit, SpanEnd(lit, 1, Digits \cup {C_minus, C_dot}))

\* Python truth of a decoded value
Truthy(v) ==
    CASE v.kind \in {"null", "false"} -> FALSE
      [] v.kind = "true"  -> TRUE
      [] v.kind = "int"   -> v.c # L_Zero
      [] v.kind = "float" -> ~FloatIsZero(v.c)
      [] v.kind = "str"   -> v.c # <<>>
      [] v.kind = "list"  -> v.e # <<>>
      [] v.kind = "map"   -> v.m # <<>>

\* _TOOL_CALL_RE, the group from position j on: the positions of a closing
\* brace that is followed by whitespace (\s, any Unicode whitespace) and the
\* closing tag; the lazy group ends at the first of them
GroupEnds(text, j) ==
    {k \in (j + 1)..Len(text) :
        /\ text[k] = C_rbrace
        /\ LiteralAt(text, SpanEnd(text, k + 1, Whitespace), S_tool_call_close)}

\* <<[start, group, raw, end]>> for a match that starts at i with its group
\* from j to the first of ends, <<>> if there is none
MatchUpTo(text, i, j, ends) ==
    IF ends = {} THEN <<>>
    ELSE LET k == CHOOSE x \in ends : \A y \in ends : x <= y
             e == SpanEnd(text, k + 1, Whitespace) + Len(S_tool_call_close)
         IN  <<[start |-> i, group |-> SubSeq(text, j, k),
                raw |-> SubSeq(text, i, e - 1), end |-> e]>>
MatchFrom(text, i, j) ==
    IF j > Len(text) \/ text[j] # C_lbrace THEN <<>>
    ELSE MatchUpTo(text, i, j, GroupEnds(text, j))
ToolMatchAt(text, i) ==
    IF ~LiteralAt(text, i, S_tool_call_open) THEN <<>>
    ELSE MatchFrom(text, i, SpanEnd(text, i + Len(S_tool_call_open), Whitespace))

RECURSIVE ToolMatches(_, _)
\* finditer: the matches from position p on, left to right, not overlapping
MatchThenRest(text, mt) == <<mt>> \o ToolMatches(text, mt.end)
ToolMatches(text, p) ==
    LET at == {i \in p..Len(text) : LiteralAt(text, i, S_tool_call_open)
                                    /\ ToolMatchAt(text, i) # <<>>}
    IN  IF at = {} THEN <<>>
        ELSE MatchThenRest(text, ToolMatchAt(text, CHOOSE x \in at : \A y \in at : x <= y)[1])

ParsedCall(name, arguments, raw) == [name |-> name, arguments |-> arguments, raw |-> raw]

\* the exceptions the except clause of parse_tool_calls catches
ParseCatches == {"JSONDecodeError", "TypeError"}

\* isinstance(arguments, str): json.loads(arguments); [err, val, next]
DecodeArguments(arguments, frames) ==
    IF arguments.kind = "str" THEN json_loads(arguments.c, frames)
    ELSE Scanned(arguments, 0)

\* the body of the loop for one match: [raised, calls]; raised names an
\* exception the except clause does not catch. frames counts the Python frames
\* in use while parse_tool_calls runs, its own among them
NoCalls == [raised |-> "none", calls |-> <<>>]
CallNamed(mt, name, arguments) ==
    IF arguments.err \in ParseCatches THEN NoCalls
    ELSE IF arguments.err # "none" THEN [raised |-> arguments.err, calls |-> <<>>]
    ELSE IF Truthy(name)
    THEN [raised |-> "none", calls |-> <<ParsedCall(name, arguments.val, mt.raw)>>]
    ELSE NoCalls
CallOfData(mt, data, frames) ==
    IF data.err \in ParseCatches THEN NoCalls
    ELSE IF data.err # "none" THEN [raised |-> data.err, calls |-> <<>>]
    ELSE IF data.val.kind # "map" THEN [raised |-> "AttributeError", calls |-> <<>>]
    ELSE CallNamed(mt, Get(data.val, S_name_key, JStr(<<>>)),
                   DecodeArguments(Get(data.val, S_arguments_key, JMap(<<>>)), frames))
CallOf(mt, frames) == CallOfData(mt, json_loads(mt.group, frames), frames)

\* the loop: the calls of the matches in order, up to an exception raised
RECURSIVE CallsOf(_, _)
CallsWith(c, rest) ==
    IF rest.raised # "none" THEN rest
    ELSE [raised |-> "none", calls |-> c.calls \o rest.calls]
CallsAfter(c, matches, frames) ==
    IF c.raised # "none" THEN c ELSE CallsWith(c, CallsOf(matches, frames))
CallsOf(matches, frames) ==
    IF matches = <<>> THEN NoCalls
    ELSE CallsAfter(CallOf(Head(matches), frames), Tail(matches), frames)

\* the call of finditer takes one level
parse_tool_calls(text, frames) ==
    IF frames + 1 > RecursionLimit THEN [raised |-> "RecursionError", calls |-> <<>>]
    ELSE CallsOf(ToolMatches(text, 1), frames)

\* inputs: texts of up to MaxPieces pieces, a piece being other text, whitespace or
\* a tagged payload; the function is called from the top level of a module or
\* five frames below the recursion limit, where an object is scanned and what
\* is nested in it is not
MaxPieces == 3
Tagged(payload) == S_tool_call_open \o payload \o S_tool_call_close
Payloads ==
    { Text("{\"name\": \"t\", \"arguments\": {\"k\": 1}}"),
      Text("{\"name\": \"t\", \"arguments\": {}}"),
      Text("{\"name\": \"tt\"}"),
      Text("\n\f{\"name\": \"tt\", \"arguments\": {}} \n"),
      Text("{\"arguments\": {}}"),
      Text("{\"name\": \"\"}"),
      Text("{\"name\": 5}"),
      Text("{\"name\": 0.0}"),
      Text("{\"name\": \"t\", \"arguments\": \"{\\\"k\\\": 1}\"}"),
      Text("{\"name\": \"t\", \"arguments\": \"x\"}"),
      Text("{\"name\": \"t\", \"arguments\": \"\\f{}\"}"),
      Text("{\"name\": \"t\", \"arguments\": \"1\"}"),
      Text("{\"name\": \"t\", \"arguments\": 5}"),
      Text("{\"name\": \"t\", \"arguments\": [1]}"),
      Text("{\"name\": \"t\", \"arguments\": \"[1]\"}"),
      Text("{\"name\": \"t\", \"arguments\": null}"),
      Text("{\"name\": \"}\", \"arguments\": {}}"),
      Text("{\"name\": \"}</tool_call>\"}"),
      Text("{bad"),
      Text("{bad}"),
      Text("bad") }
Pieces == {Text(" then "), Text("\n")} \cup {Tagged(q) : q \in Payloads}

ToolInit ==
    /\ NoCycle
    /\ NoSession
    /\ history = <<>>
    /\ io \in {[fn |-> "text", text |-> Flatten(q)] : q \in SeqsUpTo(Pieces, MaxPieces)}

CallerFrames == {2, RecursionLimit - 5}

ToolsReturned(text, frames, ret) ==
    [fn |-> "parse_tool_calls", text |-> text, frames |-> frames,
     raised |-> ret.raised, result |-> ret.calls]

CallParseToolCalls ==
    \E frames \in CallerFrames :
        /\ io.fn = "text"
        /\ io' = ToolsReturned(io.text, frames, parse_tool_calls(io.text, frames))
        /\ UNCHANGED <<cycleVars, sessionVars, history>>

ToolNext == CallParseToolCalls

ToolSpec == ToolInit /\ [][ToolNext]_vars

\* the tags of a text, left to right: each from an opening tag to the nearest
\* closing tag after it, as [payload, raw]
RECURSIVE TagsFrom(_, _)
TagsFrom(text, p) ==
    LET opens == {i \in p..Len(text) : LiteralAt(text, i, S_tool_call_open)}
    IN  IF opens = {} THEN <<>>
        ELSE LET i == CHOOSE x \in opens : \A y \in opens : x <= y
                 closes == {j \in (i + Len(S_tool_call_open))..Len(text) : LiteralAt(text, j, S_tool_call_close)}
             IN  IF closes = {} THEN <<>>
                 ELSE LET j == CHOOSE x \in closes : \A y \in closes : x <= y
                      IN  <<[payload |-> SubSeq(text, i + Len(S_tool_call_open), j - 1),
                             raw |-> SubSeq(text, i, j + Len(S_tool_call_close) - 1)]>>
                          \o TagsFrom(text, j + Len(S_tool_call_close))

\* the payload of a tag, the whitespace around it left out, is valid JSON with a
\* name, and its arguments, when they are a string, decode as JSON (as decoded
\* with the two frames of a call from the top level of a module in use)
WellFormedData(data) ==
    /\ data.err = "none"
    /\ data.val.kind = "map"
    /\ Truthy(Get(data.val, S_name_key, JStr(<<>>)))
    /\ DecodeArguments(Get(data.val, S_arguments_key, JMap(<<>>)), 2).err = "none"
WellFormedTag(tag) == WellFormedData(json_loads(Strip(tag.payload), 2))

\* the call a well-formed tag stands for
CallOfTagData(data, raw) ==
    ParsedCall(Get(data, S_name_key, JStr(<<>>)),
               DecodeArguments(Get(data, S_arguments_key, JMap(<<>>)), 2).val, raw)
CallOfTag(tag) == CallOfTagData(json_loads(Strip(tag.payload), 2).val, tag.raw)

RECURSIVE WellFormedCalls(_)
WellFormedCalls(tags) ==
    IF tags = <<>> THEN <<>>
    ELSE (IF WellFormedTag(Head(tags)) THEN <<CallOfTag(Head(tags))>> ELSE <<>>)
         \o WellFormedCalls(Tail(tags))

\* C23: parse_tool_calls never raises, and it returns the calls of the well-formed
\* tags of the text, in document order, and nothing for a tag whose payload is not
\* valid JSON, whose arguments string does not decode, or which has no name
C23_MalformedTagsSkipped ==
    io.fn = "parse_tool_calls" =>
        /\ io.raised = "none"
        /\ io.result = WellFormedCalls(TagsFrom(io.text, 1))

\* C24: every call parse_tool_calls returns has a non-empty name and arguments
\* that are a map; a payload whose arguments are no map and do not decode to one
\* is dropped
C24_ArgumentsAreAMap ==
    io.fn = "parse_tool_calls" =>
        \A n \in 1..Len(io.result) :
            /\ io.result[n].name.kind = "str" /\ io.result[n].name.c # <<>>
            /\ io.result[n].arguments.kind = "map"

\* ---------------------------------------------------------------------------
\* parse_response (agent.py) on replies with think delimiters: the function has
\* one pattern, the code fence, and ParsedResponse the fields segments, raw and
\* error; the delimiters are characters of the text like any other.
\* ---------------------------------------------------------------------------
ThinkOpen  == Text("<think>")
ThinkClose == Text("</think>")

\* the text d stands at position i of the text
DelimAt(text, i, d) ==
    i + Len(d) - 1 <= Len(text) /\ SubSeq(text, i, i + Len(d) - 1) = d

MaxThinkPieces == 6
ThinkPieces == {ThinkOpen, ThinkClose, Text("a"), Text("b"),
                Fence \o Text("\na") \o Fence}

ThinkInit ==
    /\ NoCycle
    /\ NoSession
    /\ history = <<>>
    /\ io \in {[fn |-> "text", text |-> Flatten(q)] :
                  q \in SeqsUpTo(ThinkPieces, MaxThinkPieces)}

ThinkNext == CallParseResponse

ThinkSpec == ThinkInit /\ [][ThinkNext]_vars

\* reading the text left to right: [n, rest] after the characters before x,
\* where open is the position of a pending opening delimiter (0 outside a span),
\* n the number of spans completed and rest the text outside them
RECURSIVE Scan(_, _, _, _, _)
Scan(text, x, open, n, rest) ==
    IF x > Len(text)
    THEN [n |-> n, rest |-> IF open = 0 THEN rest ELSE rest \o SubSeq(text, open, Len(text))]
    ELSE IF open = 0
         THEN (IF DelimAt(text, x, ThinkOpen)
               THEN Scan(text, x + Len(ThinkOpen), x, n, rest)
               ELSE Scan(text, x + 1, 0, n, Append(rest, text[x])))
         ELSE (IF DelimAt(text, x, ThinkClose)
               THEN Scan(text, x + Len(ThinkClose), 0, n + 1, rest)
               ELSE Scan(text, x + 1, open, n, rest))

HasDelimiter(t) ==
    \E x \in 1..Len(t) : DelimAt(t, x, ThinkOpen) \/ DelimAt(t, x, ThinkClose)

\* the blocks from the n-th on occur in the text, each between its delimiters,
\* one after the other from p on
RECURSIVE BlocksInOrder(_, _, _, _)
BlocksInOrder(text, blocks, n, p) ==
    IF n > Len(blocks) THEN TRUE
    ELSE LET span == ThinkOpen \o blocks[n] \o ThinkClose
             q    == FindFrom(text, span, p)
         IN  q # 0 /\ BlocksInOrder(text, blocks, n + 1, q + Len(span))

\* the fields of the ParsedResponse r
Fields(r) == DOMAIN r

\* every span is in think_blocks, in document order, one entry per span; the
\* segments are those of the text without the spans; without delimiters
\* think_blocks is empty
ThinkExtraction(text, r) ==
    /\ Len(r.think_blocks) = Scan(text, 1, 0, 0, <<>>).n
    /\ BlocksInOrder(text, r.think_blocks, 1, 1)
    /\ \A n \in 1..Len(r.think_blocks) :
          \A x \in 1..Len(r.think_blocks[n]) : ~DelimAt(r.think_blocks[n], x, ThinkClose)
    /\ r.segments = parse_response(Scan(text, 1, 0, 0, <<>>).rest).segments
    /\ ~HasDelimiter(text) => r.think_blocks = <<>>

\* C25: the result of parse_response has the list think_blocks, every
\* think-delimited span of the text is in it, in document order, one entry per
\* span; the segments are built from the text without the spans, and no segment
\* contains a think delimiter; without delimiters think_blocks is empty
C25_ThinkBlocksExtracted ==
    io.fn = "parse_response" =>
        /\ \A n \in 1..Len(io.result.segments) : ~HasDelimiter(Carried(io.result.segments[n]))
        /\ "think_blocks" \in Fields(io.result)
        /\ ThinkExtraction(io.text, io.result)

\* ---------------------------------------------------------------------------
\* The stream decoder and its consumer (agent.py: _parse_sse_line, stream_chat).
\* A line is [prefix, form, finish_reason, key, content]: prefix says how the
\* stripped line starts, form what follows "data: ", and for a JSON object with
\* a choice, its finish_reason and the content member of its delta (absent, null
\* or a string).  A line with prefix "raise" stands for the read failing.
\* ---------------------------------------------------------------------------
SseLine(prefix, form, finish_reason, key, content) ==
    [prefix |-> prefix, form |-> form, finish_reason |-> finish_reason,
     key |-> key, content |-> content, reasoning |-> <<>>]
NonData(prefix)  == SseLine(prefix, "", "null", "absent", <<>>)
Data(form)       == SseLine("data", form, "null", "absent", <<>>)
Delta(content)   == SseLine("data", "choice", "null", "str", content)
Finish(reason, content) == SseLine("data", "choice", reason, "str", content)
\* a delta with the member reasoning_content, its content member absent or null
ReasoningDelta(key, text) ==
    [SseLine("data", "choice", "null", key, <<>>) EXCEPT !.reasoning = <<text>>]

\* what _parse_sse_line gives: chunk is <<>> for None and <<text>> for a string;
\* exc names an exception raised instead
Chunk(c)     == [exc |-> "none", chunk |-> c]
Raises(exc)  == [exc |-> exc, chunk |-> <<>>]

FinishReasons_mut == {"stop"}
FinishReasons == {"stop", "length"}

OnDecodeError_mut == Chunk(<< <<>> >>)
OnDecodeError == Chunk(<<>>)

parse_sse_line(line) ==
    IF line.prefix \in {"blank", "comment"} THEN Chunk(<<>>)
    ELSE IF line.prefix # "data" THEN Chunk(<<>>)
    ELSE IF line.form = "done" THEN Chunk(<< <<>> >>)
    ELSE IF line.form = "malformed" THEN OnDecodeError
    ELSE IF line.form = "nonobject" THEN Raises("AttributeError")
    ELSE IF line.form = "nochoices" THEN Chunk(<<>>)
    ELSE IF line.finish_reason \in FinishReasons THEN Chunk(<< <<>> >>)
    ELSE CASE line.key = "absent" -> Chunk(<< <<>> >>)
           [] line.key = "null"   -> Chunk(<<>>)
           [] OTHER               -> Chunk(<<line.content>>)

MaxLines == 3
SseLines ==
    { NonData("blank"), NonData("comment"), NonData("other"), NonData("raise"),
      Data("done"), Data("malformed"), Data("nonobject"), Data("nochoices"),
      Finish("stop", Text("a")), Finish("length", Text("b")),
      Delta(Text("a")), Delta(Text("b")), Delta(<<>>),
      SseLine("data", "choice", "null", "absent", <<>>),
      SseLine("data", "choice", "null", "null", <<>>),
      ReasoningDelta("absent", Text("a")), ReasoningDelta("null", Text("a")) }

SseInit ==
    /\ NoCycle
    /\ NoSession
    /\ history = <<>>
    /\ io \in {[fn |-> "lines", lines |-> q, pos |-> 1, accumulated |-> <<>>,
                yielded |-> <<>>, ended_by |-> "none"] : q \in SeqsUpTo(SseLines, MaxLines)}

\* stream_chat(message) is called: the user turn, then the request
OpenStream ==
    /\ io.fn = "lines"
    /\ history' = Append(history, Turn("user", Query))
    /\ io' = [io EXCEPT !.fn = "streaming"]
    /\ UNCHANGED <<cycleVars, sessionVars>>

\* one turn of `async for line in resp.aiter_lines()`
ReadLine ==
    /\ io.fn = "streaming"
    /\ io.pos <= Len(io.lines)
    /\ LET line == io.lines[io.pos]
           r    == parse_sse_line(line)
       IN  io' =
             IF line.prefix = "raise"
             THEN [io EXCEPT !.fn = "after", !.ended_by = "ReadTimeout",
                             !.accumulated = Append(@, ErrorMsg(ExcText)),
                             !.yielded = Append(@, ErrorMsg(ExcText))]
             ELSE IF r.exc # "none"
             THEN [io EXCEPT !.fn = "raised", !.ended_by = r.exc]
             ELSE IF r.chunk = <<>>
             THEN [io EXCEPT !.pos = @ + 1]
             ELSE IF r.chunk[1] = <<>>
             THEN [io EXCEPT !.fn = "after", !.ended_by = "break"]
             ELSE [io EXCEPT !.pos = @ + 1,
                             !.accumulated = Append(@, r.chunk[1]),
                             !.yielded = Append(@, r.chunk[1])]
    /\ UNCHANGED <<cycleVars, sessionVars, history>>

\* the lines are exhausted or the loop was left: the assistant turn
CloseStream ==
    /\ \/ io.fn = "after"
       \/ io.fn = "streaming" /\ io.pos > Len(io.lines)
    /\ LET full_text == Flatten(io.accumulated)
       IN  history' = IF full_text # <<>>
                      THEN Append(history, Turn("assistant", full_text))
                      ELSE history
    /\ io' = [io EXCEPT !.fn = "closed",
                        !.ended_by = IF io.fn = "after" THEN @ ELSE "exhausted"]
    /\ UNCHANGED <<cycleVars, sessionVars>>

SseNext == OpenStream \/ ReadLine \/ CloseStream

SseSpec == SseInit /\ [][SseNext]_vars

\* a line that carries the end-of-stream sentinel or a finish_reason of stop or length
CarriesEnd(line) ==
    /\ line.prefix = "data"
    /\ \/ line.form = "done"
       \/ line.form = "choice" /\ line.finish_reason \in {"stop", "length"}

\* the consumer is about to read the line at io.pos
Reading == io.fn = "streaming" /\ io.pos <= Len(io.lines)

\* C26: a line with the sentinel or a finish_reason of stop or length decodes to the
\* empty string and the consumer leaves the loop: nothing is yielded or accumulated
\* for it or for a later line, and the assistant turn then appended is the
\* concatenation of the deltas yielded before it
C26_EndOfStreamStops ==
    [][/\ (Reading /\ CarriesEnd(io.lines[io.pos])) =>
            /\ parse_sse_line(io.lines[io.pos]) = Chunk(<< <<>> >>)
            /\ io' = [io EXCEPT !.fn = "after", !.ended_by = "break"]
       /\ (io.fn = "after" /\ io.ended_by = "break") =>
            /\ io'.fn = "closed"
            /\ io'.yielded = io.yielded
            /\ history' = IF Flatten(io.yielded) = <<>> THEN history
                          ELSE Append(history, Turn("assistant", Flatten(io.yielded)))
       /\ io.fn = "closed" => io' = io /\ history' = history]_vars

\* a delta, the sentinel, a delta: the stream closed with the first delta only
C26_Witness ==
    /\ io.fn = "closed"
    /\ io.lines = <<Delta(Text("a")), Data("done"), Delta(Text("b"))>>
    /\ io.yielded = << Text("a") >>
    /\ history = <<Turn("user", Query), Turn("assistant", Text("a"))>>

\* a line that is blank, comment-prefixed, not data-prefixed, or malformed JSON
Ignorable(line) ==
    \/ line.prefix \in {"blank", "comment", "other"}
    \/ line.prefix = "data" /\ line.form = "malformed"

\* C27: the decoder returns none for a blank, comment-prefixed, non-data or
\* malformed line, and reading such a line changes neither the accumulated text nor
\* what was yielded and does not end the stream: the consumer goes on to the next line
C27_IgnoredLinesSkipped ==
    [][(Reading /\ Ignorable(io.lines[io.pos])) =>
            /\ parse_sse_line(io.lines[io.pos]) = Chunk(<<>>)
            /\ io' = [io EXCEPT !.pos = @ + 1]
            /\ history' = history]_vars

\* a delta, a malformed line, a delta: both deltas were delivered
C27_Witness ==
    /\ io.fn = "closed"
    /\ io.lines = <<Delta(Text("a")), Data("malformed"), Delta(Text("b"))>>
    /\ io.yielded = << Text("a"), Text("b") >>
    /\ history = <<Turn("user", Query), Turn("assistant", Text("ab"))>>

\* how often the delimiter d occurs in the text
Count(text, d) == Cardinality({n \in 1..Len(text) : DelimAt(text, n, d)})

\* a line with a reasoning delta, a line with a content delta
IsReasoning(line) == line.reasoning # <<>>
IsContent(line) ==
    /\ line.prefix = "data" /\ line.form = "choice" /\ line.finish_reason = "null"
    /\ line.reasoning = <<>> /\ line.key = "str"

\* a stream of reasoning and content deltas with at least one reasoning delta,
\* ended by its last line or not at all
ReasoningStream(lines) ==
    /\ \E n \in 1..Len(lines) : IsReasoning(lines[n])
    /\ \A n \in 1..Len(lines) :
          \/ IsReasoning(lines[n])
          \/ IsContent(lines[n])
          \/ n = Len(lines) /\ CarriesEnd(lines[n])

\* the text of the first reasoning delta
FirstReasoning(lines) ==
    lines[CHOOSE n \in 1..Len(lines) :
              IsReasoning(lines[n]) /\ \A k \in 1..(n - 1) : ~IsReasoning(lines[k])].reasoning[1]

\* C28: of a stream of reasoning and content deltas the text emitted to the
\* consumer holds one think block: the opening delimiter once, prefixed to the
\* first reasoning chunk, and the closing delimiter once, so that the delimiters
\* are balanced when the stream has ended
C28_WellFormedThinkBlock ==
    (io.fn = "closed" /\ ReasoningStream(io.lines)) =>
        LET text == Flatten(io.yielded)
        IN  /\ Count(text, ThinkOpen) = 1
            /\ Count(text, ThinkClose) = 1
            /\ Contains(text, ThinkOpen \o FirstReasoning(io.lines))

\* ---------------------------------------------------------------------------
\* The context budget (context_manager.py).  A turn is [id, len, cut]: its place
\* in the history given, the length of its content in characters, and whether
\* the content was cut by smart_prune; the summary turn has id 0.
\* ---------------------------------------------------------------------------
MAX_CONTEXT_TOKENS == 32768
RESERVED_TOKENS == 4096
MIN_RECENT_TURNS == 6
\* CHARS_PER_TOKEN = 3.5 = CharsPerTokenNum / CharsPerTokenDen
CharsPerTokenNum == 7
CharsPerTokenDen == 2
\* a turn of more than LongTurnTokens tokens is cut to the characters of KeptTokens
\* tokens, followed by a line break and "...(truncated)"
LongTurnTokens == 1000
KeptTokens == 500
TruncatedMarkLen == 15
\* "[Conversation summary]: "
SummaryPrefixLen == 24

HistoryTurn(id, len) == [id |-> id, len |-> len, cut |-> FALSE]

\* estimate_tokens, of a content of len characters: int(len / 3.5)
estimate_tokens(len) == (len * CharsPerTokenDen) \div CharsPerTokenNum

RECURSIVE TotalTokens(_)
TotalTokens(turns) ==
    IF turns = <<>> THEN 0
    ELSE estimate_tokens(Head(turns).len) + TotalTokens(Tail(turns))

TruncateTurn(turn) ==
    IF estimate_tokens(turn.len) > LongTurnTokens
    THEN [turn EXCEPT !.len = (KeptTokens * CharsPerTokenNum) \div CharsPerTokenDen
                              + TruncatedMarkLen,
                      !.cut = TRUE]
    ELSE turn

\* the while loop: middle.pop(0) until the three parts fit or middle is empty
RECURSIVE DropOldest_mut(_, _, _, _)
DropOldest_mut(first, middle, recent, target_tokens) ==
    IF middle = <<>> THEN <<>>
    ELSE IF TotalTokens(first) + TotalTokens(middle) + TotalTokens(recent) <= target_tokens
         THEN middle
         ELSE DropOldest_mut(first, SubSeq(middle, 1, Len(middle) - 1), recent, target_tokens)
DropOldest_mut2(first, middle, recent, target_tokens) == <<>>
RECURSIVE DropOldest(_, _, _, _)
DropOldest(first, middle, recent, target_tokens) ==
    IF middle = <<>> THEN <<>>
    ELSE IF TotalTokens(first) + TotalTokens(middle) + TotalTokens(recent) <= target_tokens
         THEN middle
         ELSE DropOldest(first, Tail(middle), recent, target_tokens)

smart_prune(hist, target_tokens) ==
    IF hist = <<>> THEN <<>>
    ELSE LET truncated == [n \in 1..Len(hist) |-> TruncateTurn(hist[n])]
         IN  IF TotalTokens(truncated) <= target_tokens THEN truncated
             ELSE IF Len(truncated) <= MIN_RECENT_TURNS + 1 THEN truncated
             ELSE LET first  == <<truncated[1]>>
                      recent == SubSeq(truncated, Len(truncated) - MIN_RECENT_TURNS + 1,
                                       Len(truncated))
                      middle == DropOldest(first,
                                           SubSeq(truncated, 2, Len(truncated) - MIN_RECENT_TURNS),
                                           recent, target_tokens)
                      result == first \o middle \o recent
                  IN  IF TotalTokens(result) > target_tokens THEN first \o recent
                      ELSE result

DefaultTarget == MAX_CONTEXT_TOKENS - RESERVED_TOKENS

\* how the summary request ends: with a reply of len characters, or with an
\* exception of the request (transport), of raise_for_status, or of reading the
\* reply (resp.json() and its subscripts)
SummaryReply(exc, len) == [exc |-> exc, len |-> len]
RequestFailures ==
    {"ConnectError", "ConnectTimeout", "ReadTimeout", "ReadError", "RemoteProtocolError",
     "HTTPStatusError", "JSONDecodeError", "KeyError", "IndexError", "TypeError"}

\* the exception classes that derive from BaseException and not from Exception
BaseExceptionsOnly ==
    {"BaseException", "BaseExceptionGroup", "CancelledError", "KeyboardInterrupt",
     "SystemExit", "GeneratorExit"}

\* `except Exception` (context_manager.py:165): every class that derives from
\* Exception is caught
SummarizeCatches_mut(exc) == exc \in CONNECT_ERRORS
SummarizeCatches(exc) == exc \notin BaseExceptionsOnly

\* summarize_history up to its await: it returns turns, or it sends the summary
\* request and holds the slice recent of the history
summarize_history(hist) ==
    IF TotalTokens(hist) <= DefaultTarget
    THEN [returns |-> TRUE, turns |-> hist, recent |-> <<>>]
    ELSE IF Len(hist) <= MIN_RECENT_TURNS + 1
    THEN [returns |-> TRUE, turns |-> smart_prune(hist, DefaultTarget), recent |-> <<>>]
    ELSE [returns |-> FALSE, turns |-> <<>>,
          recent |-> SubSeq(hist, Len(hist) - MIN_RECENT_TURNS + 1, Len(hist))]

\* summarize_history from the end of the request on: [raised, turns]; hist is the
\* caller's list as it stands then, recent the slice taken before the request
summarize_history_resumed(hist, recent, reply) ==
    IF reply.exc = "none"
    THEN [raised |-> "none",
          turns |-> <<HistoryTurn(0, SummaryPrefixLen + reply.len)>> \o recent]
    ELSE IF SummarizeCatches(reply.exc)
    THEN [raised |-> "none", turns |-> smart_prune(hist, DefaultTarget)]
    ELSE [raised |-> reply.exc, turns |-> <<>>]

\* inputs: histories of up to MaxHistory turns, all of one length but for one turn
MaxHistory == 30
ContentLengths == {500, 3500, 3504, 35000, 105000}
Targets == {DefaultTarget, 1200, 0}
SummaryReplies ==
    {SummaryReply(e, 0) : e \in RequestFailures}
    \cup {SummaryReply("none", 0), SummaryReply("none", 700)}
Histories ==
    {[i \in 1..n |-> HistoryTurn(i, len)] : n \in 0..MaxHistory, len \in ContentLengths}
    \cup {[i \in 1..n |-> HistoryTurn(i, IF i = k THEN odd ELSE len)] :
              n \in 1..MaxHistory, k \in 1..MaxHistory,
              len \in ContentLengths, odd \in ContentLengths}

PruneInit ==
    /\ NoCycle
    /\ NoSession
    /\ history = <<>>
    /\ io \in {[fn |-> "history", turns |-> h, target |-> t] : h \in Histories, t \in Targets}

CallSmartPrune ==
    /\ io.fn = "history"
    /\ io' = [fn |-> "smart_prune", turns |-> io.turns, target |-> io.target,
              result |-> smart_prune(io.turns, io.target)]
    /\ UNCHANGED <<cycleVars, sessionVars, history>>

\* no summary request was sent
NoReply == SummaryReply("unsent", 0)

\* summarize_history(agent, history) is called: it returns, or it awaits the
\* summary request; given is the history as passed, turns the caller's list
CallSummarizeHistory ==
    /\ io.fn = "history"
    /\ io.target = DefaultTarget
    /\ io' = IF summarize_history(io.turns).returns
             THEN [fn |-> "summarize_history", given |-> io.turns, turns |-> io.turns,
                   target |-> io.target, reply |-> NoReply, raised |-> "none",
                   result |-> summarize_history(io.turns).turns]
             ELSE [fn |-> "summary_request", given |-> io.turns, turns |-> io.turns,
                   target |-> io.target, recent |-> summarize_history(io.turns).recent]
    /\ UNCHANGED <<cycleVars, sessionVars, history>>

\* while the request is awaited, another task that holds the caller's list
\* appends a turn to it (once)
AppendedLengths == {500, 3500}
AppendMeanwhile ==
    /\ io.fn = "summary_request"
    /\ io.turns = io.given
    /\ \E len \in AppendedLengths :
          io' = [io EXCEPT !.turns = Append(@, HistoryTurn(Len(@) + 1, len))]
    /\ UNCHANGED <<cycleVars, sessionVars, history>>

\* the summary request ends and summarize_history returns or raises
SummaryRequestEnds ==
    /\ io.fn = "summary_request"
    /\ \E reply \in SummaryReplies :
          io' = [fn |-> "summarize_history", given |-> io.given, turns |-> io.turns,
                 target |-> io.target, reply |-> reply,
                 raised |-> summarize_history_resumed(io.turns, io.recent, reply).raised,
                 result |-> summarize_history_resumed(io.turns, io.recent, reply).turns]
    /\ UNCHANGED <<cycleVars, sessionVars, history>>

\* needs_pruning
NeedsPruning_mut(remaining) == remaining <= 0
NeedsPruning(remaining) == remaining < 0

\* calculate_budget, of a system prompt of system_len characters
calculate_budget(system_len, hist) ==
    LET system_tokens  == estimate_tokens(system_len)
        history_tokens == TotalTokens(hist)
        total          == system_tokens + history_tokens
        remaining      == MAX_CONTEXT_TOKENS - RESERVED_TOKENS - total
    IN  [system_tokens |-> system_tokens, history_tokens |-> history_tokens,
         total |-> total, remaining |-> remaining,
         needs_pruning |-> NeedsPruning(remaining)]

\* lengths of the system prompt: none, and 672 and 673 tokens
SystemLengths == {0, 2352, 2356}

CallCalculateBudget ==
    /\ io.fn = "history"
    /\ io.target = DefaultTarget
    /\ \E system_len \in SystemLengths :
          io' = [fn |-> "calculate_budget", turns |-> io.turns, target |-> io.target,
                 system_len |-> system_len,
                 result |-> calculate_budget(system_len, io.turns)]
    /\ UNCHANGED <<cycleVars, sessionVars, history>>

PruneNext ==
    \/ CallSmartPrune
    \/ CallSummarizeHistory
    \/ AppendMeanwhile
    \/ SummaryRequestEnds
    \/ CallCalculateBudget

PruneSpec == PruneInit /\ [][PruneNext]_vars

\* C29: after smart_prune with the default target, and after summarize_history, the
\* estimated tokens of the returned history are at most MAX_CONTEXT_TOKENS -
\* RESERVED_TOKENS, unless a single turn given already exceeds that
C29_FitsDefaultTarget ==
    (io.fn \in {"smart_prune", "summarize_history"} /\ io.target = DefaultTarget) =>
        \/ \E n \in 1..Len(io.turns) : estimate_tokens(io.turns[n].len) > DefaultTarget
        \/ TotalTokens(io.result) <= DefaultTarget

\* C30: when smart_prune drops turns, what it returns is the first turn, a suffix of
\* the middle and the last MIN_RECENT_TURNS turns, in the order given, each as given
\* or cut
C30_DropsOldestMiddle ==
    (io.fn = "smart_prune" /\ Len(io.result) < Len(io.turns)) =>
        LET n == Len(io.turns)
            r == Len(io.result)
        IN  /\ r >= MIN_RECENT_TURNS + 1
            /\ io.result[1] = TruncateTurn(io.turns[1])
            /\ \A x \in 2..r : io.result[x] = TruncateTurn(io.turns[n - r + x])

\* twenty turns of 500 characters and a target of 1200 tokens: the first turn, one
\* middle turn and the last six are kept
C30_Witness ==
    /\ io.fn = "smart_prune"
    /\ io.target = 1200
    /\ io.turns = [i \in 1..20 |-> HistoryTurn(i, 500)]
    /\ Len(io.result) = 8
    /\ io.result[2].id = 14

\* the history given, each turn cut as smart_prune cuts it
Truncated(turns) == [n \in 1..Len(turns) |-> TruncateTurn(turns[n])]

\* the first turn, the last k middle turns and the last MIN_RECENT_TURNS turns
KeepMiddle(turns, k) ==
    <<turns[1]>> \o SubSeq(turns, Len(turns) - MIN_RECENT_TURNS - k + 1, Len(turns))

\* C31: when the first turn and the last MIN_RECENT_TURNS turns, as cut, fit the
\* target, what smart_prune returns fits the target and keeps the longest suffix of
\* the middle turns with which the total is within the target
C31_LongestFittingSuffix ==
    io.fn = "smart_prune" =>
        LET t == Truncated(io.turns)
            n == Len(t)
        IN  IF n <= MIN_RECENT_TURNS
            THEN TotalTokens(t) <= io.target => io.result = t
            ELSE TotalTokens(KeepMiddle(t, 0)) <= io.target =>
                    /\ TotalTokens(io.result) <= io.target
                    /\ \E k \in 0..(n - MIN_RECENT_TURNS - 1) :
                          /\ io.result = KeepMiddle(t, k)
                          /\ \A j \in (k + 1)..(n - MIN_RECENT_TURNS - 1) :
                                TotalTokens(KeepMiddle(t, j)) > io.target

\* thirty turns of 1000 tokens and the default target: two middle turns are dropped
C31_Witness ==
    /\ io.fn = "smart_prune"
    /\ io.target = DefaultTarget
    /\ io.turns = [i \in 1..30 |-> HistoryTurn(i, 3500)]
    /\ Len(io.result) = 28
    /\ io.result[2].id = 4

\* the sum of the estimated tokens of the contents
RECURSIVE SumOfEstimates(_, _)
SumOfEstimates(turns, n) ==
    IF n = 0 THEN 0 ELSE SumOfEstimates(turns, n - 1) + (2 * turns[n].len) \div 7

\* C32: calculate_budget reports total = system_tokens + history_tokens and
\* remaining = MAX_CONTEXT_TOKENS - RESERVED_TOKENS - total, and needs_pruning is
\* false exactly when total <= MAX_CONTEXT_TOKENS - RESERVED_TOKENS
C32_BudgetBoundaryExact ==
    io.fn = "calculate_budget" =>
        LET b == io.result
        IN  /\ b.system_tokens = (2 * io.system_len) \div 7
            /\ b.history_tokens = SumOfEstimates(io.turns, Len(io.turns))
            /\ b.total = b.system_tokens + b.history_tokens
            /\ b.remaining = 32768 - 4096 - b.total
            /\ b.needs_pruning = ~(b.total <= 32768 - 4096)

\* a total of exactly MAX_CONTEXT_TOKENS - RESERVED_TOKENS: no pruning
C32_Witness ==
    /\ io.fn = "calculate_budget"
    /\ io.result.total = 28672
    /\ io.result.remaining = 0
    /\ ~io.result.needs_pruning

\* one token above it: pruning
C32_WitnessAbove ==
    /\ io.fn = "calculate_budget"
    /\ io.result.total = 28673
    /\ io.result.needs_pruning

MaxOutputLen == 4010
OutputLengths == {0, 1, 1500, 2000, 3519} \cup (3990..MaxOutputLen)
OutputChars == Text("0123456789")
\* a text of n characters, the i-th being the last digit of i * k
OutputText(n, k) == [i \in 1..n |-> OutputChars[((i * k) % 10) + 1]]

OutputInit ==
    /\ NoCycle
    /\ NoSession
    /\ history = <<>>
    /\ io \in {[fn |-> "output", stdout |-> OutputText(n, k), stderr |-> e] :
                  n \in OutputLengths, k \in {1, 3}, e \in {<<>>, Text("e")}}

\* the code-block path: stdout and stderr are combined, cut and fed back
FeedCommandOutput ==
    /\ io.fn = "output"
    /\ LET output_text == CombinedOutput(Result(Ls, 0, io.stdout, io.stderr))
       IN  io' = [fn |-> "stream_feed_result", output |-> output_text,
                  fed |-> Truncate(output_text)]
    /\ UNCHANGED <<cycleVars, sessionVars, history>>

\* the tool path: the handler's string is cut and fed back
FeedToolOutput ==
    /\ io.fn = "output"
    /\ io.stderr = <<>>
    /\ io' = [fn |-> "stream_feed_tool_result", output |-> io.stdout,
              fed |-> Truncate(io.stdout)]
    /\ UNCHANGED <<cycleVars, sessionVars, history>>

OutputNext == FeedCommandOutput \/ FeedToolOutput

OutputSpec == OutputInit /\ [][OutputNext]_vars

\* C34: an output of more than 4000 characters is fed back as its first 2000
\* characters, the truncation marker and its last 1500 characters, a shorter one
\* as it is, so what is fed back never exceeds 4000 characters
C34_OutputTruncated ==
    io.fn \in {"stream_feed_result", "stream_feed_tool_result"} =>
        LET n == Len(io.output)
        IN  /\ n <= 4000 => io.fed = io.output
            /\ n > 4000 =>
                  /\ Len(io.fed) = 2000 + Len(S_truncated) + 1500
                  /\ \A i \in 1..2000 : io.fed[i] = io.output[i]
                  /\ SubSeq(io.fed, 2001, 2000 + Len(S_truncated)) = S_truncated
                  /\ \A i \in 1..1500 :
                        io.fed[2000 + Len(S_truncated) + i] = io.output[n - 1500 + i]
            /\ Len(io.fed) <= 4000

\* an output of 4001 characters was cut to 3519
C34_Witness ==
    /\ io.fn = "stream_feed_result"
    /\ Len(io.output) = 4001
    /\ Len(io.fed) = 3519

ShellInit ==
    /\ NoCycle
    /\ NoSession
    /\ history = <<>>
    /\ io \in {[fn |-> "command", command |-> c, env |-> e] :
                  c \in {Ls, RmRf}, e \in ShellEnvs}

CallRun ==
    /\ io.fn = "command"
    /\ io' = [fn |-> "run", command |-> io.command, env |-> io.env,
              raised |-> shell_run(io.command, io.env).raised,
              result |-> shell_run(io.command, io.env).result]
    /\ UNCHANGED <<cycleVars, sessionVars, history>>

ShellNext == CallRun

ShellSpec == ShellInit /\ [][ShellNext]_vars

\* C35: run raises nothing and returns a Result; after a timeout the Result has
\* exit code -1, empty stdout and stderr "timed out"; after a spawn failure it has
\* exit code -1 and the error text as stderr; ok is true exactly for exit code 0
C35_RunNeverRaises ==
    io.fn = "run" =>
        /\ io.raised = "none"
        /\ Len(io.result) = 1
        /\ LET r == io.result[1]
           IN  /\ (io.env.spawn = "ok" /\ io.env.ends = "timeout") =>
                      r = Result(io.command, -1, <<>>, T_timed_out)
               /\ io.env.spawn # "ok" =>
                      r.code = -1 /\ r.stdout = <<>> /\ r.stderr = ExcText
               /\ ResultOk(r) <=> r.code = 0

\* ---------------------------------------------------------------------------
\* is_dangerous on commands made of up to MaxWords pieces
\* ---------------------------------------------------------------------------
MaxWords == 4
Words == {Text("dd"), Text(" "), Text("\n"), <<11>>, Text("ls"), DANGEROUS_PATTERNS[1],
          DANGEROUS_PATTERNS[3]}

DangerInit ==
    /\ NoCycle
    /\ NoSession
    /\ history = <<>>
    /\ io \in {[fn |-> "command", command |-> Flatten(q)] : q \in SeqsUpTo(Words, MaxWords)}

CallIsDangerous ==
    /\ io.fn = "command"
    /\ io' = [fn |-> "is_dangerous", command |-> io.command,
              result |-> is_dangerous(io.command)]
    /\ UNCHANGED <<cycleVars, sessionVars, history>>

DangerNext == CallIsDangerous

DangerSpec == DangerInit /\ [][DangerNext]_vars

\* text holds one of the fixed patterns as a substring
HoldsPattern(text) ==
    \E k \in 1..Len(DANGEROUS_PATTERNS) :
        \E i \in 1..Len(text) :
            /\ i + Len(DANGEROUS_PATTERNS[k]) - 1 <= Len(text)
            /\ \A j \in 1..Len(DANGEROUS_PATTERNS[k]) :
                  text[i + j - 1] = DANGEROUS_PATTERNS[k][j]

\* text from its first to its last character that is not whitespace
Trimmed(text) ==
    LET solid == {i \in 1..Len(text) : text[i] \notin Whitespace}
    IN  IF solid = {} THEN <<>>
        ELSE SubSeq(text, CHOOSE i \in solid : \A j \in solid : i <= j,
                          CHOOSE i \in solid : \A j \in solid : j <= i)

\* adding whitespace in front of or after the command does not change the result
PaddingIgnored(command, result) ==
    \A w \in Whitespace :
        /\ is_dangerous(<<w>> \o command) = result
        /\ is_dangerous(command \o <<w>>) = result

\* C36 as stated: a command is flagged exactly when it holds one of the patterns as
\* a substring, and whitespace added in front or after does not change the result
C36_Original ==
    io.fn = "is_dangerous" =>
        /\ io.result <=> HoldsPattern(io.command)
        /\ PaddingIgnored(io.command, io.result)

\* C36: a command is flagged exactly when, without its leading and trailing
\* whitespace, it holds one of the patterns as a substring, and whitespace added in
\* front or after does not change the result
C36_FlagsTrimmedCommand ==
    io.fn = "is_dangerous" =>
        /\ io.result <=> HoldsPattern(Trimmed(io.command))
        /\ PaddingIgnored(io.command, io.result)

\* the first pattern between blanks is flagged
C36_Witness ==
    /\ io.fn = "is_dangerous"
    /\ io.command = Text(" ") \o DANGEROUS_PATTERNS[1] \o Text(" ")
    /\ io.result

\* C37: each execution of a block or tool call sends its feed-back request, and
\* the reply to it ends the loop over the response, whose remaining blocks and tool
\* calls are not reached; so there is at most one execution and one feed-back
\* request per iteration, and at most MAX_STEPS of each in a cycle
C37_OneExecutionPerResponse ==
    /\ [](/\ requests = Len(executed_commands)
          /\ Len(executed_commands) <= iteration
          /\ iteration <= MAX_STEPS)
    /\ [][/\ Len(executed_commands') <= Len(executed_commands) + 1
          /\ executed_commands' # executed_commands =>
                /\ ItemStep /\ last'.ran
                /\ requests' = requests + 1
                /\ pc' \in {"code_feed", "tool_feed"}
          /\ (ItemStep /\ last'.ran) => Len(executed_commands') = Len(executed_commands) + 1
          /\ requests' # requests => executed_commands' # executed_commands
          /\ pc \in {"code_feed", "tool_feed"} =>
                /\ pc' \in {"top", "done", "raised"}
                /\ pc' = "top" => idx' = 0
                /\ iteration' = iteration
                /\ UNCHANGED <<executed_commands, requests, last>>]_vars

\* the first block of a response with two blocks was run and the next response has
\* taken its place: the second block was not reached
C37_Witness ==
    /\ last.kind = "code" /\ last.ran /\ last.command = RmRf
    /\ Len(executed_commands) = 1
    /\ requests = 1
    /\ iteration = 1
    /\ pc = "top"
    /\ parsed = R_final

\* C38: an iteration that does not end the cycle has sent exactly one feed-back
\* request and goes on with the new response: whenever the loop is at the head of
\* an iteration, as many feed-back requests were sent as iterations were made, so
\* no response is processed in two iterations
C38_EachIterationFeedsOrEnds ==
    pc = "top" => requests = iteration

\* C39: a chat or feed-back call, streaming or not, that fails in transport or
\* receives no text leaves the history as it was before the call: no user turn of
\* the failed call and no error text stay in it
C39_FailedRequestLeavesHistory ==
    [][(IsRequestCall /\ (io'.failure # <<>> \/ io'.result = <<NoResponseParsed>>))
          => history' = io'.before]_vars

\* C40: the decoder gives the empty string only for a line with the sentinel or a
\* finish_reason of stop or length; after a well-formed data line with a choice and
\* no such finish_reason, whatever its delta holds, the consumer is still reading
C40_OnlyEndLinesTerminate ==
    [][Reading =>
          LET line == io.lines[io.pos]
          IN  /\ parse_sse_line(line) = Chunk(<< <<>> >>) => CarriesEnd(line)
              /\ (line.prefix = "data" /\ line.form = "choice" /\ ~CarriesEnd(line))
                    => io'.fn = "streaming"]_vars

=============================================================================
